---- MODULE Spec2Model ----
(***************************************************************************)
(* TextGAN-Researcher: the research state (EnhancedExecutionState), the    *)
(* Generator / Rewarder / Reviewer agents and the generate_content cycle.  *)
(*                                                                         *)
(* Optional[...] fields are modelled as sequences of length 0 or 1:        *)
(* None is <<>> and a value x is <<x>>.  Scores are whole numbers.  Dates  *)
(* are day numbers counted from datetime.min.                              *)
(***************************************************************************)
EXTENDS Integers, Sequences, FiniteSets, TLC

VARIABLES
    decomposed_goals,    \* EnhancedExecutionState.decomposed_goals
    knowledge_base,      \* EnhancedExecutionState.knowledge_base
    current_generation,  \* EnhancedExecutionState.current_generation
    current_score,       \* EnhancedExecutionState.current_score
    current_criticism,   \* EnhancedExecutionState.current_criticism
    history,             \* EnhancedExecutionState.history
    now,                 \* datetime.datetime.now(), as a day number
    pc,                  \* position of GenerateContentTool._run
    generated_content,   \* local of GenerateContentTool._run
    evaluation,          \* local of GenerateContentTool._run
    criticism,           \* local of GenerateContentTool._run
    responses,           \* what llm.invoke returned to each agent in this cycle
    calls,               \* callers of llm.invoke during the current cycle
    stages,              \* stages entered during the current cycle
    cycle_start,         \* the generation ledger when the current cycle started
    outcome,             \* how the last _run ended
    ret,                 \* value returned by the last state query
    search_iterations,   \* EnhancedExecutionState.search_iterations
    hypotheses,          \* EnhancedExecutionState.hypotheses
    contradictions,      \* EnhancedExecutionState.contradictions
    tool,                \* the last tool _run: its name, input and outcome
    prompt_input,        \* prompt_input of the Generator's last generate
    cancel_requested,    \* whether the caller has asked the cycle to stop
    task_storage,        \* api/main.py task_storage: task id -> status
    background_tasks     \* execute_research_task jobs added and not yet run

vars == <<decomposed_goals, knowledge_base, current_generation, current_score,
          current_criticism, history, now, pc, generated_content, evaluation,
          criticism, responses, calls, stages, cycle_start, outcome, ret,
          search_iterations, hypotheses, contradictions, tool, prompt_input,
          cancel_requested, task_storage, background_tasks>>

goalVars == <<decomposed_goals>>
knowledgeVars == <<knowledge_base>>
ledgerVars == <<current_generation, current_score, current_criticism, history>>
researchVars == <<search_iterations, hypotheses, contradictions>>
toolVars == <<tool>>
apiVars == <<task_storage, background_tasks>>
requestVars == <<prompt_input, cancel_requested, apiVars>>
cycleVars == <<pc, generated_content, evaluation, criticism, responses,
               calls, stages, cycle_start, outcome>>

----------------------------------------------------------------------------
(* Bounds *)

MaxHistory == 3      \* cycles are started while history is shorter than this
MaxGoals == 2        \* goals added
MaxKnowledge == 2    \* knowledge items added
MaxTicks == 1        \* days the clock advances
StartDay == 50       \* the day number of now when the task starts
MaxWindow == 55      \* largest recency window queried

----------------------------------------------------------------------------
(* Values *)

None == <<>>
Some(x) == <<x>>

\* Python's truth value of an optional text: None and "" are falsy
Truthy(opt) == opt # None /\ opt[1] # ""

\* empty text is falsy in Python, so it is kept among the texts
Contents == {"", "draft"}
Critiques == {"", "needs sources"}
ScoreValues == {5, 7, 8, 9}

Threshold == 8
FallbackScore == 5
Sentinel == "no critique needed"

Max(a, b) == IF a >= b THEN a ELSE b

Last(s) == s[Len(s)]

----------------------------------------------------------------------------
(* Generation ledger *)

Ledger == [history |-> history, content |-> current_generation,
           score |-> current_score, criticism |-> current_criticism]

CurrentTriple == <<current_generation, current_score, current_criticism>>

EntryTriple(e) == <<e.content, e.score, e.criticism>>

\* add_generation with the bug of recording the triple being installed
add_generation_records_new(content, score, crit) ==
    /\ history' = Append(history, [timestamp |-> now,
                                   content |-> content,
                                   score |-> score,
                                   criticism |-> crit])
    /\ current_generation' = content
    /\ current_score' = score
    /\ current_criticism' = crit

add_generation(content, score, crit) ==
    /\ history' = Append(history, [timestamp |-> now,
                                   content |-> current_generation,
                                   score |-> current_score,
                                   criticism |-> current_criticism])
    /\ current_generation' = content
    /\ current_score' = score
    /\ current_criticism' = crit

----------------------------------------------------------------------------
(* Rewarder *)

\* what llm.invoke may return to the Rewarder: text that is not JSON, JSON
\* that is not an object, or a JSON object whose "score" and "reason" members
\* are absent or present
ScoreMembers == {[t |-> "absent", v |-> 0], [t |-> "text", v |-> 0]}
                    \cup {[t |-> "number", v |-> n] : n \in ScoreValues}
ReasonMembers == {[t |-> "absent", v |-> ""], [t |-> "text", v |-> "ok"]}
RewarderResponses ==
    {[kind |-> "text", score |-> [t |-> "absent", v |-> 0],
      reason |-> [t |-> "absent", v |-> ""]],
     [kind |-> "array", score |-> [t |-> "absent", v |-> 0],
      reason |-> [t |-> "absent", v |-> ""]]}
    \cup [kind : {"object"}, score : ScoreMembers, reason : ReasonMembers]

\* the exception raised inside the try block of evaluate, "" when none is
ParseError(resp) ==
    IF resp.kind = "text" THEN "JSONDecodeError"
    ELSE IF resp.kind = "array" THEN "TypeError"
    ELSE IF resp.score.t = "absent" THEN "KeyError score"
    ELSE IF resp.score.t = "text" THEN "ValueError"
    ELSE IF resp.reason.t = "absent" THEN "KeyError reason"
    ELSE ""

\* evaluate with the bug of reading the reason with a default (.get)
evaluate_reason_default(resp) ==
    IF ParseError(resp) \in {"", "KeyError reason"}
    THEN [raised |-> FALSE, score |-> resp.score.v,
          reason |-> [failed |-> FALSE, error |-> "", text |-> resp.reason.v,
                      raw |-> None]]
    ELSE [raised |-> FALSE, score |-> FallbackScore,
          reason |-> [failed |-> TRUE, error |-> ParseError(resp), text |-> "",
                      raw |-> Some(resp)]]

evaluate(resp) ==
    IF ParseError(resp) = ""
    THEN [raised |-> FALSE, score |-> resp.score.v,
          reason |-> [failed |-> FALSE, error |-> "", text |-> resp.reason.v,
                      raw |-> None]]
    ELSE [raised |-> FALSE, score |-> FallbackScore,
          reason |-> [failed |-> TRUE, error |-> ParseError(resp), text |-> "",
                      raw |-> Some(resp)]]

----------------------------------------------------------------------------
(* Reviewer *)

\* the short-circuit test with the threshold itself excluded
ShortCircuitStrict(score) == score > Threshold

ShortCircuit(score) == score >= Threshold

\* what critique returns, given the text the capability returns if called
critique(score, text) == IF ShortCircuit(score) THEN Sentinel ELSE text

----------------------------------------------------------------------------
(* Goal tracker *)

Descriptions == {"A", "B"}
Statuses == {"pending", "in_progress", "completed", "blocked", "total"}

\* f"goal_{n}"
GoalId(n) == <<"goal", n>>

\* add_goal(goal, status), the appended record
NewGoal(desc, status) ==
    [id |-> GoalId(Len(decomposed_goals) + 1),
     description |-> desc,
     status |-> status,
     created_at |-> now,
     completed_at |-> None,
     related_searches |-> <<>>,
     related_knowledge |-> <<>>]

\* index of the first goal with this id, 0 when there is none
FirstGoal(goals, goal_id) ==
    IF \E i \in DOMAIN goals : goals[i].id = goal_id
    THEN CHOOSE i \in DOMAIN goals :
            /\ goals[i].id = goal_id
            /\ \A j \in 1..(i - 1) : goals[j].id # goal_id
    ELSE 0

\* update_goal_status with the bug of changing the goal the loop ended on
\* when no goal has the id
update_goal_status_last(goals, goal_id, status) ==
    LET i == IF FirstGoal(goals, goal_id) = 0 THEN Len(goals)
             ELSE FirstGoal(goals, goal_id) IN
    IF i = 0 THEN goals
    ELSE [goals EXCEPT ![i] =
            [@ EXCEPT !.status = status,
                      !.completed_at = IF status = "completed"
                                       THEN Some(now) ELSE @]]

\* update_goal_status with the bug of clearing the time of completion when
\* the new status is another one
update_goal_status_clearing(goals, goal_id, status) ==
    LET i == FirstGoal(goals, goal_id) IN
    IF i = 0 THEN goals
    ELSE [goals EXCEPT ![i] =
            [@ EXCEPT !.status = status,
                      !.completed_at = IF status = "completed"
                                       THEN Some(now) ELSE None]]

\* update_goal_status(goal_id, status), the list afterwards
update_goal_status(goals, goal_id, status) ==
    LET i == FirstGoal(goals, goal_id) IN
    IF i = 0 THEN goals
    ELSE [goals EXCEPT ![i] =
            [@ EXCEPT !.status = status,
                      !.completed_at = IF status = "completed"
                                       THEN Some(now) ELSE @]]

\* stats[key] = stats.get(key, 0) + 1
StatsIncrement(stats, key) ==
    [k \in DOMAIN stats \cup {key} |->
        IF k = key
        THEN (IF key \in DOMAIN stats THEN stats[key] ELSE 0) + 1
        ELSE stats[k]]

\* the loop of get_goal_progress over the goals
RECURSIVE CountStatuses(_, _)
CountStatuses(stats, goals) ==
    IF goals = <<>> THEN stats
    ELSE CountStatuses(StatsIncrement(stats, Head(goals).status), Tail(goals))

\* get_goal_progress with the bug of seeding only the total
get_goal_progress_unseeded(goals) ==
    CountStatuses([total |-> Len(goals)], goals)

get_goal_progress(goals) ==
    CountStatuses([total |-> Len(goals), completed |-> 0, in_progress |-> 0,
                   pending |-> 0], goals)

----------------------------------------------------------------------------
(* Knowledge store *)

MinDay == 0          \* datetime.datetime.min

Keys == {"k1"}

\* publish_date texts: an ISO date without a zone, an ISO date with a zone,
\* the empty text, and text that is not a date
DateText(form, day) == [form |-> form, day |-> day]
PublishDays == {StartDay - 35, StartDay - 30, StartDay, StartDay + 1}
PublishDates ==
    {None, Some(DateText("empty", 0)), Some(DateText("garbage", 0)),
     Some(DateText("isoz", StartDay))}
    \cup {Some(DateText("iso", d)) : d \in PublishDays}

\* dateutil's parse: a failure, or a date that is zone-aware or naive
parse_date(text) ==
    IF text.form = "iso" THEN [ok |-> TRUE, aware |-> FALSE, day |-> text.day]
    ELSE IF text.form = "isoz"
    THEN [ok |-> TRUE, aware |-> TRUE, day |-> text.day]
    ELSE [ok |-> FALSE, aware |-> FALSE, day |-> 0]

\* KnowledgeItem(key=..., publish_date=..., goal_id=...); value and source
\* are opaque and left out
KnowledgeItem(key, publish_date, goal_id) ==
    [key |-> key, publish_date |-> publish_date, added_at |-> now,
     confidence |-> 7, goal_id |-> goal_id, verified |-> FALSE]

\* add_knowledge with the bug of filing the key under the first goal when
\* no goal has the item's goal_id
GoalsWithKnowledgeAnywhere(goals, item) ==
    IF item.goal_id = None THEN goals
    ELSE LET i == IF FirstGoal(goals, item.goal_id[1]) = 0
                  THEN (IF goals = <<>> THEN 0 ELSE 1)
                  ELSE FirstGoal(goals, item.goal_id[1]) IN
         IF i = 0 THEN goals
         ELSE [goals EXCEPT ![i].related_knowledge = Append(@, item.key)]

\* add_knowledge: the goals afterwards (the key is filed under its goal)
GoalsWithKnowledge(goals, item) ==
    IF item.goal_id = None THEN goals
    ELSE LET i == FirstGoal(goals, item.goal_id[1]) IN
         IF i = 0 THEN goals
         ELSE [goals EXCEPT ![i].related_knowledge = Append(@, item.key)]

\* the loop body of get_knowledge_by_recency without the try block: a date
\* that fails to parse or to compare ends the call
ItemOutcomeUncaught(item, cutoff) ==
    IF item.publish_date = None \/ item.publish_date[1].form = "empty"
    THEN "skip"
    ELSE LET pub_date == parse_date(item.publish_date[1]) IN
         IF ~pub_date.ok \/ pub_date.aware THEN "raise"
         ELSE IF pub_date.day >= cutoff THEN "keep"
         ELSE "skip"

\* the loop body with the comparison the wrong way round
ItemOutcomeOlder(item, cutoff) ==
    IF item.publish_date = None \/ item.publish_date[1].form = "empty"
    THEN "skip"
    ELSE LET pub_date == parse_date(item.publish_date[1]) IN
         IF ~pub_date.ok \/ pub_date.aware THEN "skip"
         ELSE IF pub_date.day <= cutoff THEN "keep"
         ELSE "skip"

\* the loop body of get_knowledge_by_recency for one item: a missing or empty
\* date is skipped; a ParserError, or the TypeError of comparing a zone-aware
\* date with the naive cutoff, is swallowed by the bare except
ItemOutcome(item, cutoff) ==
    IF item.publish_date = None \/ item.publish_date[1].form = "empty"
    THEN "skip"
    ELSE LET pub_date == parse_date(item.publish_date[1]) IN
         IF ~pub_date.ok \/ pub_date.aware THEN "skip"
         ELSE IF pub_date.day >= cutoff THEN "keep"
         ELSE "skip"

\* recent_knowledge, as indices into the knowledge base, from index i on
RECURSIVE RecentFrom(_, _, _)
RecentFrom(kb, cutoff, i) ==
    IF i > Len(kb) THEN <<>>
    ELSE IF ItemOutcome(kb[i], cutoff) = "keep"
    THEN <<i>> \o RecentFrom(kb, cutoff, i + 1)
    ELSE RecentFrom(kb, cutoff, i + 1)

\* the sort key of line 154
SortKey(kb, i) ==
    IF kb[i].publish_date # None /\ kb[i].publish_date[1].form # "empty"
    THEN parse_date(kb[i].publish_date[1]).day
    ELSE MinDay

\* the insertion with the bug of placing i before the entries of its own date
RECURSIVE InsertNewestFirstUnstable(_, _, _)
InsertNewestFirstUnstable(kb, s, i) ==
    IF s = <<>> THEN <<i>>
    ELSE IF SortKey(kb, Head(s)) > SortKey(kb, i)
    THEN <<Head(s)>> \o InsertNewestFirstUnstable(kb, Tail(s), i)
    ELSE <<i>> \o s

\* i inserted into s, which is sorted newest first, after every entry that
\* is not older (sorted is stable, also with reverse=True)
RECURSIVE InsertNewestFirst(_, _, _)
InsertNewestFirst(kb, s, i) ==
    IF s = <<>> THEN <<i>>
    ELSE IF SortKey(kb, Head(s)) >= SortKey(kb, i)
    THEN <<Head(s)>> \o InsertNewestFirst(kb, Tail(s), i)
    ELSE <<i>> \o s

RECURSIVE SortNewestFirst(_, _)
SortNewestFirst(kb, s) ==
    IF s = <<>> THEN <<>>
    ELSE InsertNewestFirst(kb, SortNewestFirst(kb, SubSeq(s, 1, Len(s) - 1)),
                           s[Len(s)])

\* get_knowledge_by_recency(days) called on day today: the items returned, as
\* indices into the knowledge base, or the exception.  The cutoff is computed
\* outside the try block and raises OverflowError below datetime.min.
get_knowledge_by_recency(kb, today, days) ==
    LET cutoff == today - days IN
    IF cutoff < MinDay
    THEN [raised |-> TRUE, items |-> <<>>]
    ELSE IF \E i \in DOMAIN kb : ItemOutcome(kb[i], cutoff) = "raise"
    THEN [raised |-> TRUE, items |-> <<>>]
    ELSE [raised |-> FALSE,
          items |-> SortNewestFirst(kb, RecentFrom(kb, cutoff, 1))]

----------------------------------------------------------------------------
(* GenerateContentTool._run.  llm.invoke is the only point where the       *)
(* handler waits, so each action runs from one capability call to the      *)
(* next: pc names the agent whose call is in flight.                       *)

NoResponses == [generator |-> None, rewarder |-> None, reviewer |-> None]

\* no query has returned since the state last changed
NoRet == [op |-> "none"]

\* no tool has run
NoRun == [name |-> "none"]

\* task ids a request can carry (request.task_id, or a generated one)
TaskIds == {"t1", "t2"}

\* generate has not been called
NoPrompt == [criticism |-> None]

\* the text generate puts in place of an absent or empty criticism
NoPriorCriticism == "no previous criticism"

\* generate, with the bug of passing the state's criticism as it is
prior_criticism_unguarded(crit) ==
    IF crit = None THEN Some("None") ELSE crit

\* generate: criticism = state.current_criticism if state.current_criticism
\* else the placeholder
prior_criticism(crit) ==
    IF Truthy(crit) THEN crit ELSE Some(NoPriorCriticism)

CycleLocalsReset ==
    /\ generated_content' = None
    /\ evaluation' = None
    /\ criticism' = None

\* _run entered while another _run on the state waits for its capability
StartCycleReentrant ==
    /\ Len(history) < MaxHistory
    /\ pc' = "generate"
    /\ CycleLocalsReset
    /\ calls' = <<"generator">>
    /\ stages' = <<"GENERATE">>
    /\ cycle_start' = Ledger
    /\ outcome' = "running"
    /\ responses' = NoResponses
    /\ prompt_input' = [criticism |-> prior_criticism(current_criticism)]
    /\ UNCHANGED <<cancel_requested, apiVars, goalVars, knowledgeVars, researchVars,
                   toolVars, ledgerVars, now, ret>>

\* _run is entered and the Generator issues its capability call.  The
\* executor calls the tools one after the other (agent_executor.invoke), so
\* _run is entered only when no _run is in progress.
StartCycle ==
    /\ pc = "idle"
    /\ Len(history) < MaxHistory
    /\ pc' = "generate"
    /\ CycleLocalsReset
    /\ calls' = <<"generator">>
    /\ stages' = <<"GENERATE">>
    /\ cycle_start' = Ledger
    /\ outcome' = "running"
    /\ responses' = NoResponses
    /\ prompt_input' = [criticism |-> prior_criticism(current_criticism)]
    /\ UNCHANGED <<cancel_requested, apiVars, goalVars, knowledgeVars, researchVars,
                   toolVars, ledgerVars, now, ret>>

\* the exception of a capability call leaves _run
Abort ==
    /\ pc' = "idle"
    /\ outcome' = "failed"
    /\ UNCHANGED <<requestVars, goalVars, knowledgeVars, researchVars, toolVars,
                   ledgerVars, now, generated_content,
                   evaluation, criticism, responses, calls, stages,
                   cycle_start, ret>>

\* the commit with the bug of passing the state's criticism
CommitStateCriticism(content, ev, crit) ==
    /\ add_generation(content, Some(ev.score), current_criticism)
    /\ pc' = "idle"
    /\ outcome' = "success"

\* the last statements of _run: add_generation and the return
Commit(content, ev, crit) ==
    /\ add_generation(content, Some(ev.score), crit)
    /\ pc' = "idle"
    /\ outcome' = "success"

\* the Generator's call returns with the bug of installing the text at once
GenerateReturnsEager(c) ==
    /\ pc = "generate"
    /\ generated_content' = Some(c)
    /\ current_generation' = Some(c)
    /\ responses' = [responses EXCEPT !.generator = Some(c)]
    /\ pc' = "score"
    /\ calls' = Append(calls, "rewarder")
    /\ stages' = Append(stages, "SCORE")
    /\ UNCHANGED <<requestVars, goalVars, knowledgeVars, researchVars, toolVars,
                   current_score, current_criticism,
                   history, now, evaluation, criticism, cycle_start, outcome,
                   ret>>

\* the Generator's call returns c; the Rewarder issues its call
GenerateReturns(c) ==
    /\ pc = "generate"
    /\ generated_content' = Some(c)
    /\ responses' = [responses EXCEPT !.generator = Some(c)]
    /\ pc' = "score"
    /\ calls' = Append(calls, "rewarder")
    /\ stages' = Append(stages, "SCORE")
    /\ UNCHANGED <<requestVars, goalVars, knowledgeVars, researchVars, toolVars,
                   ledgerVars, now, evaluation,
                   criticism, cycle_start, outcome, ret>>

GenerateFails == pc = "generate" /\ Abort

\* the Rewarder's call returns resp: evaluate parses it, then critique either
\* returns the sentinel at once (and _run commits) or issues its call
ScoreReturns(resp) ==
    /\ pc = "score"
    /\ responses' = [responses EXCEPT !.rewarder = Some(resp)]
    /\ LET ev == evaluate(resp) IN
        IF ev.raised
        THEN /\ pc' = "idle"
             /\ outcome' = "failed"
             /\ UNCHANGED <<ledgerVars, evaluation, criticism, calls, stages>>
        ELSE /\ evaluation' = Some(ev)
             /\ IF ShortCircuit(ev.score)
                THEN /\ criticism' = Some(critique(ev.score, ""))
                     /\ stages' = stages \o <<"SKIP", "COMMIT">>
                     /\ calls' = calls
                     /\ Commit(generated_content, ev,
                               Some(critique(ev.score, "")))
                ELSE /\ pc' = "critique"
                     /\ stages' = Append(stages, "CRITIQUE")
                     /\ calls' = Append(calls, "reviewer")
                     /\ UNCHANGED <<ledgerVars, criticism, outcome>>
    /\ UNCHANGED <<requestVars, goalVars, knowledgeVars, researchVars, toolVars,
                   now, generated_content,
                   cycle_start, ret>>

ScoreFails == pc = "score" /\ Abort

\* the Reviewer's call returns text; _run commits
CritiqueReturns(text) ==
    /\ pc = "critique"
    /\ responses' = [responses EXCEPT !.reviewer = Some(text)]
    /\ criticism' = Some(critique(evaluation[1].score, text))
    /\ stages' = Append(stages, "COMMIT")
    /\ Commit(generated_content, evaluation[1],
              Some(critique(evaluation[1].score, text)))
    /\ UNCHANGED <<requestVars, goalVars, knowledgeVars, researchVars, toolVars,
                   now, generated_content,
                   evaluation, calls, cycle_start, ret>>

CritiqueFails == pc = "critique" /\ Abort

\* the clock advances by a day
Tick ==
    /\ now < StartDay + MaxTicks
    /\ now' = now + 1
    /\ ret' = NoRet
    /\ UNCHANGED <<requestVars, goalVars, knowledgeVars, researchVars, toolVars,
                   ledgerVars, cycleVars>>

----------------------------------------------------------------------------

\* EnhancedExecutionState(task_id, task_description), no _run in progress
Init ==
    /\ decomposed_goals = <<>>
    /\ knowledge_base = <<>>
    /\ current_generation = None
    /\ current_score = None
    /\ current_criticism = None
    /\ history = <<>>
    /\ now = StartDay
    /\ pc = "idle"
    /\ generated_content = None
    /\ evaluation = None
    /\ criticism = None
    /\ responses = NoResponses
    /\ calls = <<>>
    /\ stages = <<>>
    /\ cycle_start = [history |-> <<>>, content |-> None, score |-> None,
                      criticism |-> None]
    /\ outcome = "none"
    /\ ret = NoRet
    /\ search_iterations = <<>>
    /\ hypotheses = <<>>
    /\ contradictions = <<>>
    /\ tool = NoRun
    /\ prompt_input = NoPrompt
    /\ cancel_requested = FALSE
    /\ task_storage = [task_id \in TaskIds |-> None]
    /\ background_tasks = <<>>

\* the refinement loop: generate_content cycles on one state
Next ==
    \/ StartCycle
    \/ \E c \in Contents : GenerateReturns(c)
    \/ GenerateFails
    \/ \E resp \in RewarderResponses : ScoreReturns(resp)
    \/ ScoreFails
    \/ \E text \in Critiques : CritiqueReturns(text)
    \/ CritiqueFails
    \/ Tick

Spec == Init /\ [][Next]_vars

----------------------------------------------------------------------------
(* Operations on the goal tracker and the knowledge store *)

AddGoal(desc, status) ==
    /\ Len(decomposed_goals) < MaxGoals
    /\ decomposed_goals' = Append(decomposed_goals, NewGoal(desc, status))
    /\ ret' = NoRet
    /\ UNCHANGED <<requestVars, knowledgeVars, ledgerVars, cycleVars, researchVars, toolVars,
                   now>>

UpdateGoalStatus(goal_id, status) ==
    /\ decomposed_goals' = update_goal_status(decomposed_goals, goal_id, status)
    /\ ret' = NoRet
    /\ UNCHANGED <<requestVars, knowledgeVars, ledgerVars, cycleVars, researchVars, toolVars,
                   now>>

GetGoalProgress ==
    /\ ret' = [op |-> "get_goal_progress",
               value |-> get_goal_progress(decomposed_goals)]
    /\ UNCHANGED <<requestVars, goalVars, knowledgeVars, researchVars, toolVars,
                   ledgerVars, cycleVars, now>>

AddKnowledge(key, publish_date, goal_id) ==
    /\ Len(knowledge_base) < MaxKnowledge
    /\ LET item == KnowledgeItem(key, publish_date, goal_id) IN
        /\ knowledge_base' = Append(knowledge_base, item)
        /\ decomposed_goals' = GoalsWithKnowledge(decomposed_goals, item)
    /\ ret' = NoRet
    /\ UNCHANGED <<requestVars, ledgerVars, cycleVars, researchVars, toolVars, now>>

GetKnowledgeByRecency(days) ==
    /\ ret' = [op |-> "get_knowledge_by_recency", days |-> days,
               value |-> get_knowledge_by_recency(knowledge_base, now, days)]
    /\ UNCHANGED <<requestVars, goalVars, knowledgeVars, researchVars, toolVars,
                   ledgerVars, cycleVars, now>>

\* goal ids passed to update_goal_status: those that can exist and one more
GoalIds == {GoalId(n) : n \in 1..(MaxGoals + 1)}

\* the goal tracker on its own
NextGoals ==
    \/ \E desc \in Descriptions, status \in Statuses : AddGoal(desc, status)
    \/ \E goal_id \in GoalIds, status \in Statuses :
          UpdateGoalStatus(goal_id, status)
    \/ GetGoalProgress
    \/ Tick

SpecGoals == Init /\ [][NextGoals]_vars

\* windows passed to get_knowledge_by_recency by the query action
Windows == {30, 40, MaxWindow}

\* the knowledge store on its own
NextKnowledge ==
    \/ \E key \in Keys, publish_date \in PublishDates :
          AddKnowledge(key, publish_date, None)
    \/ \E days \in Windows : GetKnowledgeByRecency(days)
    \/ Tick

SpecKnowledge == Init /\ [][NextKnowledge]_vars

----------------------------------------------------------------------------
(* Properties of the refinement loop, checked under Spec *)

ReviewerCalls == Cardinality({i \in DOMAIN calls : calls[i] = "reviewer"})

\* C1: a step that appends to history (add_generation) records the triple
\* that was current before the step, which is not the new triple whenever the
\* two differ, and installs the triple passed by _run as the current one.
C1_CommitRoundTrip ==
    [][Len(history') = Len(history) + 1 =>
         /\ EntryTriple(Last(history')) = CurrentTriple
         /\ CurrentTriple' # CurrentTriple =>
                EntryTriple(Last(history')) # CurrentTriple'
         /\ CurrentTriple' = <<generated_content',
                               Some(evaluation'[1].score), criticism'>>]_vars

\* a second commit has happened over a current triple that was set
C1_Witness ==
    /\ Len(history) = 2
    /\ history[2].content # None
    /\ EntryTriple(history[2]) # CurrentTriple

\* C2: when a cycle has ended by the failure of a capability call, the
\* ledger (history and the current triple) is what it was when the cycle
\* started.
C2_NoPartialCommit == outcome = "failed" => Ledger = cycle_start

\* the Reviewer's call failed in a cycle that followed a committed one
C2_Witness ==
    /\ outcome = "failed"
    /\ Last(calls) = "reviewer"
    /\ Len(history) >= 1

StageOrders == {<<"GENERATE", "SCORE", "CRITIQUE", "COMMIT">>,
                <<"GENERATE", "SCORE", "SKIP", "COMMIT">>}

IsPrefix(s, t) == Len(s) <= Len(t) /\ s = SubSeq(t, 1, Len(s))

\* C3: the stages of a cycle are entered in the order GENERATE, SCORE,
\* CRITIQUE or SKIP, COMMIT; a cycle that has not succeeded has not
\* committed; a cycle that succeeded entered all of them and added exactly
\* one history entry, and the current triple is that cycle's content, score
\* and critique.
C3_StageOrderOneCommit ==
    /\ \E o \in StageOrders : IsPrefix(stages, o)
    /\ outcome # "success" =>
          \A i \in DOMAIN stages : stages[i] # "COMMIT"
    /\ outcome = "success" =>
          /\ stages \in StageOrders
          /\ Len(history) = Len(cycle_start.history) + 1
          /\ SubSeq(history, 1, Len(history) - 1) = cycle_start.history
          /\ current_generation = responses.generator
          /\ current_score = Some(evaluation[1].score)
          /\ current_criticism = criticism
          /\ stages[3] = "CRITIQUE" => current_criticism = responses.reviewer
          /\ stages[3] = "SKIP" => current_criticism = Some(Sentinel)

\* a cycle with a Reviewer call has succeeded after an earlier commit
C3_Witness ==
    /\ outcome = "success"
    /\ stages[3] = "CRITIQUE"
    /\ Len(history) = 2

\* C4: once the Rewarder's score is known, a score of 8 or more means no
\* Reviewer call was made and the critique is the sentinel; a lower score
\* means exactly one Reviewer call, whose text is the critique once it
\* has returned.
C4_ReviewerShortCircuit ==
    evaluation # None =>
        IF evaluation[1].score >= 8
        THEN ReviewerCalls = 0 /\ criticism = Some(Sentinel)
        ELSE /\ ReviewerCalls = 1
             /\ responses.reviewer # None => criticism = responses.reviewer

\* critique returned the sentinel for a score of exactly 8
C4_Witness ==
    /\ outcome = "success"
    /\ evaluation[1].score = 8
    /\ criticism = Some(Sentinel)

\* the response is not the structured {score, reason} form
NotStructured(resp) ==
    \/ resp.kind # "object"
    \/ resp.score.t # "number"
    \/ resp.reason.t = "absent"

\* C5: once the capability has returned a response to the Rewarder,
\* evaluate has returned; if the response is not the structured form the
\* score is 5 and the reason carries the parse error and the response.
C5_RewarderFailSoft ==
    responses.rewarder # None =>
        /\ evaluation # None
        /\ NotStructured(responses.rewarder[1]) =>
              /\ evaluation[1].score = 5
              /\ evaluation[1].reason.failed
              /\ evaluation[1].reason.error # ""
              /\ evaluation[1].reason.raw = responses.rewarder

\* a JSON object without a reason was scored 5 and the cycle went on
C5_Witness ==
    /\ responses.rewarder # None
    /\ responses.rewarder[1].kind = "object"
    /\ responses.rewarder[1].score.t = "number"
    /\ responses.rewarder[1].score.v = 9
    /\ responses.rewarder[1].reason.t = "absent"
    /\ evaluation[1].score = 5
    /\ outcome = "success"

----------------------------------------------------------------------------
(* Properties of the goal tracker, checked under SpecGoals *)

\* number of goals whose status is status
Holding(status) ==
    Cardinality({i \in DOMAIN decomposed_goals :
                    decomposed_goals[i].status = status})

HeldStatuses == {decomposed_goals[i].status : i \in DOMAIN decomposed_goals}

RECURSIVE SumCounts(_, _)
SumCounts(stats, keys) ==
    IF keys = {} THEN 0
    ELSE LET k == CHOOSE x \in keys : TRUE IN
         stats[k] + SumCounts(stats, keys \ {k})

\* C6: in the mapping returned by get_goal_progress, the per-status counts
\* (every entry but the total) sum to the number of goals.
C6_CountsSumToTotal ==
    ret.op = "get_goal_progress" =>
        SumCounts(ret.value, DOMAIN ret.value \ {"total"})
            = Len(decomposed_goals)

\* C7 as stated: the keys are exactly pending, in_progress, completed and
\* the other statuses held, each mapped to the number of goals holding it.
C7_AsStated ==
    ret.op = "get_goal_progress" =>
        /\ DOMAIN ret.value
              = {"pending", "in_progress", "completed"} \cup HeldStatuses
        /\ \A k \in DOMAIN ret.value : ret.value[k] = Holding(k)

\* C7 as amended: the keys are total, pending, in_progress, completed and
\* the other statuses held; every key but total is mapped to the number of
\* goals holding it, and total to the number of goals plus the number of
\* goals whose status is the text "total"; when every goal is pending the
\* mapping is {total: n, pending: n, in_progress: 0, completed: 0}.
C7_ProgressMapping ==
    ret.op = "get_goal_progress" =>
        /\ DOMAIN ret.value
              = {"total", "pending", "in_progress", "completed"}
                    \cup HeldStatuses
        /\ \A k \in DOMAIN ret.value \ {"total"} : ret.value[k] = Holding(k)
        /\ ret.value["total"] = Len(decomposed_goals) + Holding("total")
        /\ HeldStatuses \subseteq {"pending"} =>
              ret.value = [total |-> Len(decomposed_goals),
                           pending |-> Len(decomposed_goals),
                           in_progress |-> 0, completed |-> 0]

\* progress() after addGoal("A"), addGoal("B")
C7_Witness ==
    /\ ret.op = "get_goal_progress"
    /\ Len(decomposed_goals) = 2
    /\ decomposed_goals[1].description = "A"
    /\ decomposed_goals[2].description = "B"
    /\ HeldStatuses = {"pending"}
    /\ ret.value["pending"] = 2

----------------------------------------------------------------------------
(* Properties of the knowledge store, checked under SpecKnowledge *)

Returned(r) == {r.items[i] : i \in DOMAIN r.items}

ByRecency(days) == get_knowledge_by_recency(knowledge_base, now, days)

\* the results of the calls for the windows D..MaxWindow, in that order
RECURSIVE ResultsFrom(_)
ResultsFrom(D) ==
    IF D > MaxWindow THEN <<>>
    ELSE <<ByRecency(D)>> \o ResultsFrom(D + 1)

\* C8 as stated: every item returned for a window D is returned for the
\* window D + k, for all D and k.
C8_AsStated ==
    \A D \in 0..MaxWindow : \A k \in 0..(MaxWindow - D) :
        \A i \in Returned(ByRecency(D)) :
            /\ ~ByRecency(D + k).raised
            /\ i \in Returned(ByRecency(D + k))

\* C8 as amended: when now - (D + k) days is not before datetime.min, both
\* calls return and every item returned for D is returned for D + k; when
\* it is before datetime.min the call for D + k raises.
C8_MonotonicWidening ==
    LET results == ResultsFrom(0) IN
    \A D \in 0..MaxWindow : \A k \in 0..(MaxWindow - D) :
        LET narrow == results[D + 1]
            wide == results[D + k + 1] IN
        IF now - (D + k) >= MinDay
        THEN /\ ~narrow.raised
             /\ ~wide.raised
             /\ Returned(narrow) \subseteq Returned(wide)
        ELSE wide.raised

\* the window of 40 days returned an item that the window of 30 days, which
\* returns another item, does not
C8_Witness ==
    /\ ret.op = "get_knowledge_by_recency"
    /\ ret.days = 40
    /\ Returned(ret.value) = {1, 2}
    /\ Cardinality(Returned(ByRecency(30))) = 1

\* the publish date of item i parses to a date without a zone
HasNaiveDate(i) ==
    /\ knowledge_base[i].publish_date # None
    /\ knowledge_base[i].publish_date[1].form = "iso"

PublishDay(i) == knowledge_base[i].publish_date[1].day

\* C9: for a window D that reaches no further back than datetime.min, an
\* item with a date is returned exactly when the date lies in
\* [now - D, now]; in particular no item dated after now is returned.
\* (Dates that carry a zone are left out of this statement.)
C9_ClosedWindow ==
    (ret.op = "get_knowledge_by_recency" /\ now - ret.days >= MinDay) =>
        /\ ~ret.value.raised
        /\ \A i \in DOMAIN knowledge_base :
              HasNaiveDate(i) =>
                  (i \in Returned(ret.value)
                      <=> /\ now - ret.days <= PublishDay(i)
                          /\ PublishDay(i) <= now)

\* the publish date of item i is missing or does not parse
Undated(i) ==
    \/ knowledge_base[i].publish_date = None
    \/ knowledge_base[i].publish_date[1].form \in {"empty", "garbage"}

\* C10: get_knowledge_by_recency returns no item whose date is missing or
\* does not parse, and it raises only when the cutoff falls below
\* datetime.min, whatever the items are.
C10_UndatedExcluded ==
    \A D \in 0..MaxWindow :
        LET r == ByRecency(D) IN
        /\ r.raised <=> now - D < MinDay
        /\ \A i \in Returned(r) : ~Undated(i)

\* a query returned the dated item of a base that also holds an item whose
\* date does not parse
C10_Witness ==
    /\ ret.op = "get_knowledge_by_recency"
    /\ ~ret.value.raised
    /\ Len(knowledge_base) = 2
    /\ knowledge_base[1].publish_date = Some(DateText("garbage", 0))
    /\ ret.value.items = <<2>>

----------------------------------------------------------------------------
(* Search iterations, hypotheses and contradictions *)

MaxSearches == 2         \* search iterations added
MaxHypotheses == 2       \* hypotheses added
MaxContradictions == 2   \* contradictions added
MaxEntities == 3         \* entities of all kinds added to one state
MaxSupporting == 1       \* knowledge keys filed under one hypothesis

\* f"search_{n}", f"hyp_{n}", f"contra_{n}"
SearchId(n) == <<"search", n>>
HypId(n) == <<"hyp", n>>
ContraId(n) == <<"contra", n>>

\* index of the first entry with this id, 0 when there is none
FirstWithId(entries, id) ==
    IF \E i \in DOMAIN entries : entries[i].id = id
    THEN CHOOSE i \in DOMAIN entries :
            /\ entries[i].id = id
            /\ \A j \in 1..(i - 1) : entries[j].id # id
    ELSE 0

\* the search with the bug of keeping the last item that has the key
LastWithKey(kb, key) ==
    IF \E i \in DOMAIN kb : kb[i].key = key
    THEN CHOOSE i \in DOMAIN kb :
            /\ kb[i].key = key
            /\ \A j \in (i + 1)..Len(kb) : kb[j].key # key
    ELSE 0

\* index of the first knowledge item with this key, 0 when there is none
FirstWithKey(kb, key) ==
    IF \E i \in DOMAIN kb : kb[i].key = key
    THEN CHOOSE i \in DOMAIN kb :
            /\ kb[i].key = key
            /\ \A j \in 1..(i - 1) : kb[j].key # key
    ELSE 0

\* add_iteration(query, results, goal_id), the appended record; results are
\* kept as their number
NewIteration(searches, query, results, goal_id) ==
    [id |-> SearchId(Len(searches) + 1),
     timestamp |-> now,
     query |-> query,
     results |-> results,
     goal_id |-> goal_id]

\* add_iteration: the goals afterwards (the search is filed under its goal)
GoalsWithSearch(goals, search_id, goal_id) ==
    IF goal_id = None THEN goals
    ELSE LET i == FirstGoal(goals, goal_id[1]) IN
         IF i = 0 THEN goals
         ELSE [goals EXCEPT ![i].related_searches = Append(@, search_id)]

\* get_knowledge_item(key): the item is returned as its index, None as 0
get_knowledge_item(kb, key) == FirstWithKey(kb, key)

\* update_knowledge_item with the bug of dropping the items it matches
update_knowledge_item_dropping(kb, key, verified) ==
    SelectSeq(kb, LAMBDA item : item.key # key)

\* update_knowledge_item(key, verified=...), the knowledge base afterwards
update_knowledge_item(kb, key, verified) ==
    LET i == FirstWithKey(kb, key) IN
    IF i = 0 THEN kb ELSE [kb EXCEPT ![i].verified = verified]

\* add_hypothesis with the bug of numbering from zero
NewHypothesisFromZero(hyps, hypothesis, supporting) ==
    [id |-> HypId(Len(hyps)),
     hypothesis |-> hypothesis,
     status |-> "pending_verification",
     supporting_knowledge_ids |-> supporting,
     contradicting_knowledge_ids |-> <<>>]

\* add_hypothesis(hypothesis, supporting_knowledge_ids), the appended record
NewHypothesis(hyps, hypothesis, supporting) ==
    [id |-> HypId(Len(hyps) + 1),
     hypothesis |-> hypothesis,
     status |-> "pending_verification",
     supporting_knowledge_ids |-> supporting,
     contradicting_knowledge_ids |-> <<>>]

\* update_hypothesis_status with the bug of assigning the lists passed
update_hypothesis_status_set(hyps, hyp_id, status, supporting, contradicting) ==
    LET i == FirstWithId(hyps, hyp_id) IN
    IF i = 0 THEN hyps
    ELSE [hyps EXCEPT ![i] =
            [@ EXCEPT !.status = status,
                      !.supporting_knowledge_ids =
                          IF supporting = <<>> THEN @ ELSE supporting,
                      !.contradicting_knowledge_ids =
                          IF contradicting = <<>> THEN @ ELSE contradicting]]

\* update_hypothesis_status(hyp_id, status, supporting, contradicting)
update_hypothesis_status(hyps, hyp_id, status, supporting, contradicting) ==
    LET i == FirstWithId(hyps, hyp_id) IN
    IF i = 0 THEN hyps
    ELSE [hyps EXCEPT ![i] =
            [@ EXCEPT !.status = status,
                      !.supporting_knowledge_ids = @ \o supporting,
                      !.contradicting_knowledge_ids = @ \o contradicting]]

\* add_contradiction(conflicting_knowledge_ids, description), the record
NewContradiction(contras, keys, description) ==
    [id |-> ContraId(Len(contras) + 1),
     description |-> description,
     conflicting_knowledge_ids |-> keys,
     resolution_attempt_description |-> None,
     status |-> "unresolved"]

\* update_contradiction_status with the bug of assigning the text even when
\* it is empty or absent
update_contradiction_status_always(contras, contra_id, status, text) ==
    LET i == FirstWithId(contras, contra_id) IN
    IF i = 0 THEN contras
    ELSE [contras EXCEPT ![i] =
            [@ EXCEPT !.status = status,
                      !.resolution_attempt_description = text]]

\* update_contradiction_status with the bug of touching every entry
update_contradiction_status_every(contras, contra_id, status, text) ==
    IF FirstWithId(contras, contra_id) = 0 THEN contras
    ELSE [i \in DOMAIN contras |->
            [contras[i] EXCEPT !.status = status,
                               !.resolution_attempt_description =
                                   IF Truthy(text) THEN text ELSE @]]

\* update_contradiction_status(contra_id, status, resolution_description)
update_contradiction_status(contras, contra_id, status, text) ==
    LET i == FirstWithId(contras, contra_id) IN
    IF i = 0 THEN contras
    ELSE [contras EXCEPT ![i] =
            [@ EXCEPT !.status = status,
                      !.resolution_attempt_description =
                          IF Truthy(text) THEN text ELSE @]]

\* get_state_summary with the goal lines newest first
get_state_summary_reversed ==
    [goals |-> Len(decomposed_goals),
     completed |-> get_goal_progress(decomposed_goals).completed,
     searches |-> Len(search_iterations),
     knowledge |-> Len(knowledge_base),
     hypotheses |-> Len(hypotheses),
     contradictions |-> Len(contradictions),
     attempts |-> Len(history) + (IF Truthy(current_generation) THEN 1 ELSE 0),
     goal_lines |-> [i \in DOMAIN decomposed_goals |->
                        LET g == decomposed_goals[
                                    Len(decomposed_goals) + 1 - i] IN
                        <<g.id, g.description, g.status>>],
     score |-> IF Truthy(current_generation) THEN Some(current_score)
               ELSE None,
     criticism |-> IF Truthy(current_generation) /\ Truthy(current_criticism)
                   THEN current_criticism ELSE None]

\* get_state_summary(): the lines of the text, as a record of their values
get_state_summary ==
    [goals |-> Len(decomposed_goals),
     completed |-> get_goal_progress(decomposed_goals).completed,
     searches |-> Len(search_iterations),
     knowledge |-> Len(knowledge_base),
     hypotheses |-> Len(hypotheses),
     contradictions |-> Len(contradictions),
     attempts |-> Len(history) + (IF Truthy(current_generation) THEN 1 ELSE 0),
     goal_lines |-> [i \in DOMAIN decomposed_goals |->
                        LET g == decomposed_goals[i] IN
                        <<g.id, g.description, g.status>>],
     score |-> IF Truthy(current_generation) THEN Some(current_score)
               ELSE None,
     criticism |-> IF Truthy(current_generation) /\ Truthy(current_criticism)
                   THEN current_criticism ELSE None]

----------------------------------------------------------------------------
(* Operations on the whole research state.  Each call leaves its name, its *)
(* arguments and the value it returned in ret.                             *)

TotalEntities ==
    Len(decomposed_goals) + Len(search_iterations) + Len(knowledge_base)
    + Len(hypotheses) + Len(contradictions) + Len(history)

\* add_goal(goal) and add_goal(goal, status): status is None when the caller
\* leaves it to the default
AddGoalWith(desc, status) ==
    /\ Len(decomposed_goals) < MaxGoals
    /\ LET goal == NewGoal(desc, IF status = None THEN "pending"
                                 ELSE status[1]) IN
        /\ decomposed_goals' = Append(decomposed_goals, goal)
        /\ ret' = [op |-> "add_goal", status |-> status, value |-> goal.id]
    /\ UNCHANGED <<requestVars, knowledgeVars, ledgerVars, cycleVars, researchVars,
                   toolVars, now>>

\* update_goal_status(goal_id, status); the method returns nothing
UpdateGoalStatusCall(goal_id, status) ==
    /\ decomposed_goals' = update_goal_status(decomposed_goals, goal_id, status)
    /\ ret' = [op |-> "update_goal_status", goal_id |-> goal_id,
               status |-> status, value |-> None]
    /\ UNCHANGED <<requestVars, knowledgeVars, ledgerVars, cycleVars,
                   researchVars, toolVars, now>>

AddIteration(query, results, goal_id) ==
    /\ Len(search_iterations) < MaxSearches
    /\ LET search == NewIteration(search_iterations, query, results,
                                  goal_id) IN
        /\ search_iterations' = Append(search_iterations, search)
        /\ decomposed_goals' =
              GoalsWithSearch(decomposed_goals, search.id, goal_id)
        /\ ret' = [op |-> "add_iteration", value |-> search.id]
    /\ UNCHANGED <<requestVars, knowledgeVars, ledgerVars, cycleVars, hypotheses,
                   contradictions, toolVars, now>>

UpdateKnowledgeItem(key, verified) ==
    /\ knowledge_base' = update_knowledge_item(knowledge_base, key, verified)
    /\ ret' = [op |-> "update_knowledge_item", key |-> key,
               verified |-> verified,
               value |-> FirstWithKey(knowledge_base, key) # 0]
    /\ UNCHANGED <<requestVars, goalVars, ledgerVars, cycleVars, researchVars, toolVars,
                   now>>

AddHypothesis(hypothesis, supporting) ==
    /\ Len(hypotheses) < MaxHypotheses
    /\ LET hyp == NewHypothesis(hypotheses, hypothesis, supporting) IN
        /\ hypotheses' = Append(hypotheses, hyp)
        /\ ret' = [op |-> "add_hypothesis", value |-> hyp.id]
    /\ UNCHANGED <<requestVars, goalVars, knowledgeVars, ledgerVars, cycleVars,
                   search_iterations, contradictions, toolVars, now>>

UpdateHypothesisStatus(hyp_id, status, supporting, contradicting) ==
    /\ hypotheses' = update_hypothesis_status(hypotheses, hyp_id, status,
                                              supporting, contradicting)
    /\ ret' = [op |-> "update_hypothesis_status", hyp_id |-> hyp_id,
               status |-> status, supporting |-> supporting,
               contradicting |-> contradicting,
               value |-> FirstWithId(hypotheses, hyp_id) # 0]
    /\ UNCHANGED <<requestVars, goalVars, knowledgeVars, ledgerVars, cycleVars,
                   search_iterations, contradictions, toolVars, now>>

AddContradiction(keys, description) ==
    /\ Len(contradictions) < MaxContradictions
    /\ LET contra == NewContradiction(contradictions, keys, description) IN
        /\ contradictions' = Append(contradictions, contra)
        /\ ret' = [op |-> "add_contradiction", value |-> contra.id]
    /\ UNCHANGED <<requestVars, goalVars, knowledgeVars, ledgerVars, cycleVars,
                   search_iterations, hypotheses, toolVars, now>>

UpdateContradictionStatus(contra_id, status, text) ==
    /\ contradictions' = update_contradiction_status(contradictions,
                                                     contra_id, status, text)
    /\ ret' = [op |-> "update_contradiction_status", contra_id |-> contra_id,
               status |-> status, text |-> text,
               value |-> FirstWithId(contradictions, contra_id) # 0]
    /\ UNCHANGED <<requestVars, goalVars, knowledgeVars, ledgerVars, cycleVars,
                   search_iterations, hypotheses, toolVars, now>>

\* add_generation called on the state directly
AddGeneration(content, score, crit) ==
    /\ Len(history) < MaxHistory
    /\ add_generation(Some(content), Some(score), Some(crit))
    /\ ret' = [op |-> "add_generation", content |-> Some(content),
               score |-> Some(score), criticism |-> Some(crit)]
    /\ UNCHANGED <<requestVars, goalVars, knowledgeVars, cycleVars, researchVars,
                   toolVars, now>>

GetStateSummary ==
    /\ ret' = [op |-> "get_state_summary", value |-> get_state_summary]
    /\ UNCHANGED <<requestVars, goalVars, knowledgeVars, ledgerVars, cycleVars,
                   researchVars, toolVars, now>>

\* the arguments the operations are called with
KnowledgeKeys == {"k1", "k2"}
KeyLists == {<<"k1", "k2">>, <<"k2">>}
GoalRefs == {None, Some(GoalId(1))}
HypothesisStatuses == {"supported", "refuted"}
ContradictionStatuses == {"resolving", "resolved"}
ContradictionDescriptions == {"D1", "D2"}
ResolutionTexts == {None, Some(""), Some("merged")}
HypIds == {HypId(n) : n \in 1..(MaxHypotheses + 1)}
ContraIds == {ContraId(n) : n \in 1..(MaxContradictions + 1)}

\* the contradiction tracker on its own
NextContradictions ==
    \/ \E keys \in KeyLists, description \in ContradictionDescriptions :
          AddContradiction(keys, description)
    \/ \E contra_id \in ContraIds, status \in ContradictionStatuses,
          text \in ResolutionTexts :
          UpdateContradictionStatus(contra_id, status, text)

SpecContradictions == Init /\ [][NextContradictions]_vars

\* every operation of the research state, in any order
NextState ==
    \/ \E status \in {None, Some("completed")} :
          TotalEntities < MaxEntities /\ AddGoalWith("A", status)
    \/ \E goal_id \in {GoalId(1), GoalId(MaxGoals + 1)} :
          UpdateGoalStatusCall(goal_id, "completed")
    \/ \E goal_id \in GoalRefs :
          TotalEntities < MaxEntities /\ AddIteration("q", 1, goal_id)
    \/ \E goal_id \in GoalRefs :
          /\ TotalEntities < MaxEntities
          /\ AddKnowledge("k1", Some(DateText("iso", StartDay)), goal_id)
    \/ \E key \in KnowledgeKeys : UpdateKnowledgeItem(key, TRUE)
    \/ TotalEntities < MaxEntities /\ AddHypothesis("H", <<>>)
    \/ /\ \A i \in DOMAIN hypotheses :
            Len(hypotheses[i].supporting_knowledge_ids) < MaxSupporting
       /\ \E hyp_id \in {HypId(1), HypId(MaxHypotheses + 1)} :
            UpdateHypothesisStatus(hyp_id, "supported", <<"k1">>, <<>>)
    \/ TotalEntities < MaxEntities /\ AddContradiction(<<"k1">>, "D1")
    \/ \E contra_id \in {ContraId(1), ContraId(MaxContradictions + 1)} :
          UpdateContradictionStatus(contra_id, "resolved", Some("merged"))
    \/ TotalEntities < MaxEntities /\ AddGeneration("draft", 7, "needs sources")
    \/ GetStateSummary

SpecState == Init /\ [][NextState]_vars

----------------------------------------------------------------------------
(* The tools.  A _run is one step: the planner calls the tools one at a     *)
(* time and nothing else touches the state while a _run waits for a         *)
(* capability.  tool records the call and how it ended: raised is TRUE when *)
(* an exception left _run, text names the string it returned otherwise.     *)

\* what a capability call (llm.invoke, the search provider) can do
Capability == {"returns", "raises"}

\* a tool's input string: the JSON the tool expects, or anything else
ToolInputs == {"ok", "malformed"}

\* a model response read with json.loads and then by field: it parses and
\* has the fields, it does not parse, or it parses and lacks a field
ModelResponses == {"parsed", "unparsable", "missing_field"}

\* keys of knowledge items handled by the tools; f"evidence_{hyp_id}_{n}"
ToolKeys == {<<"k", 1>>, <<"k", 2>>}
EvidenceKey(hyp_id, n) == <<"evidence", hyp_id, n>>

\* an except block whose message reads response.content: the message when
\* response was assigned, UnboundLocalError when the try block failed before
ResponseHandler(response_assigned) ==
    IF response_assigned THEN [raised |-> FALSE, text |-> "failure"]
    ELSE [raised |-> TRUE, text |-> "none"]

\* an except block whose message reads only the input
InputHandler == [raised |-> FALSE, text |-> "failure"]

Returned_(text) == [raised |-> FALSE, text |-> text]
Escaped == [raised |-> TRUE, text |-> "none"]

----------------------------------------------------------------------------
(* web_search *)

\* the engine the tool is built for, and whether SEARCH_API_KEY and
\* GOOGLE_CX are both set (only the Google search reads them)
SearchSetups ==
    {[engine |-> "google", credentials |-> TRUE],
     [engine |-> "google", credentials |-> FALSE],
     [engine |-> "duckduckgo", credentials |-> FALSE],
     [engine |-> "other", credentials |-> FALSE]}

\* what the provider's HTTP exchange can come to
ProviderOutcomes == {"results", "empty", "http_error", "timeout", "malformed"}

MaxResults == 2      \* results a provider returns

\* a SearchResultItem: where it comes from, its date and its confidence
\* (in tenths)
SearchResultItem(origin, publish_date, confidence) ==
    [origin |-> origin, publish_date |-> publish_date,
     confidence |-> confidence]

\* _search_google / _search_duckduckgo: the list returned, or the ValueError
\* of a Google search without its credentials
SearchProvider(engine, credentials, exchange, n) ==
    IF engine = "google" /\ ~credentials
    THEN [raised |-> TRUE, results |-> <<>>]
    ELSE IF exchange = "results"
    THEN [raised |-> FALSE,
          results |-> [i \in 1..n |->
                          SearchResultItem("provider", None,
                              IF engine = "google" THEN 6 ELSE 8)]]
    ELSE [raised |-> FALSE, results |-> <<>>]

\* web_search._run without its except block and without the substitution of
\* an example result
web_search_unsubstituted(engine, credentials, exchange, n) ==
    LET found == SearchProvider(engine, credentials, exchange, n) IN
    [raised |-> found.raised, items |-> found.results]

\* web_search._run: the list it returns as JSON
web_search(engine, credentials, exchange, n) ==
    LET found == SearchProvider(engine, credentials, exchange, n) IN
    [raised |-> FALSE,
     items |->
        IF found.raised
        THEN <<SearchResultItem("fallback", Some(DateText("iso", now)), 5)>>
        ELSE IF found.results = <<>>
        THEN <<SearchResultItem("example",
                                Some(DateText("iso", now - 5)), 6)>>
        ELSE found.results]

WebSearch(setup, exchange, n) ==
    /\ LET searched == web_search(setup.engine, setup.credentials, exchange,
                                  n) IN
       tool' = [name |-> "web_search", setup |-> setup,
                exchange |-> exchange, raised |-> searched.raised,
                text |-> IF searched.raised THEN "none" ELSE "json",
                items |-> searched.items]
    /\ ret' = NoRet
    /\ UNCHANGED <<requestVars, goalVars, knowledgeVars, ledgerVars, cycleVars,
                   researchVars, now>>

----------------------------------------------------------------------------
(* The tools that call the model.  A call is the tool's input, what the    *)
(* capability does when it is reached and what the model answers when it   *)
(* returns.                                                                *)

\* the calls that differ in what the tool goes through
Calls(answers) ==
    {[input |-> "malformed", capability |-> "none", response |-> "none"],
     [input |-> "ok", capability |-> "raises", response |-> "none"]}
    \cup {[input |-> "ok", capability |-> "returns", response |-> r] :
             r \in answers}

\* the record of a _run: capability and response are "none" when _run did
\* not get that far
Run(name, call, called, res) ==
    [name |-> name, input |-> call.input,
     capability |-> IF called THEN call.capability ELSE "none",
     response |-> IF called THEN call.response ELSE "none",
     raised |-> res.raised, text |-> res.text]

\* the same with the id the tool was called with, and what the model is set
\* to answer
RunOn(name, call, called, res, arg) ==
    [name |-> name, input |-> call.input,
     capability |-> IF called THEN call.capability ELSE "none",
     response |-> IF called THEN call.response ELSE "none",
     raised |-> res.raised, text |-> res.text, arg |-> arg,
     answer |-> call.response]

\* whether a _run that may add n entities still fits the bound
Fits(n) == TotalEntities + n <= MaxEntities

\* the path through a try block that parses the input, calls the model and
\* parses the response, with an except block that reads response.content;
\* ready is whether the tool has found what it calls the model about
Path(call, ready, early) ==
    IF call.input # "ok" THEN ResponseHandler(FALSE)
    ELSE IF ~ready THEN Returned_(early)
    ELSE IF call.capability # "returns" THEN ResponseHandler(FALSE)
    ELSE IF call.response \in {"unparsable", "missing_field"}
    THEN ResponseHandler(TRUE)
    ELSE Returned_("success")

\* InformationExtractionTool._run when the confidence that reaches
\* KnowledgeItem(**extracted_data) is the number given (in tenths): the one
\* in the model's response, else the one in the input, else 0.7.  The field
\* is a plain float, so any number is stored.
ExtractInformationOf(call, key, publish_date, confidence) ==
    LET res == Path(call, TRUE, "none")
        item == [KnowledgeItem(key, publish_date, None)
                    EXCEPT !.confidence = confidence] IN
    /\ res.text = "success" => Fits(1)
    /\ tool' = Run("extract_information", call, TRUE, res)
    /\ IF res.text = "success"
       THEN /\ knowledge_base' = Append(knowledge_base, item)
            /\ decomposed_goals' = GoalsWithKnowledge(decomposed_goals, item)
       ELSE UNCHANGED <<knowledge_base, decomposed_goals>>
    /\ ret' = NoRet
    /\ UNCHANGED <<requestVars, ledgerVars, cycleVars, researchVars, now>>

\* InformationExtractionTool._run when neither the response nor the input
\* names a confidence
ExtractInformation(call, key, publish_date) ==
    ExtractInformationOf(call, key, publish_date, 7)

\* SynthesizeKnowledgeTool._run on the keys of the input
SynthesizeKnowledge(call, keys, new_key) ==
    LET found == \E i \in DOMAIN keys :
                    FirstWithKey(knowledge_base, keys[i]) # 0
        res == Path(call, found, "nothing_to_synthesize")
        item == [KnowledgeItem(new_key, Some(DateText("iso", now)), None)
                    EXCEPT !.confidence = 8, !.verified = TRUE] IN
    /\ res.text = "success" => Fits(1)
    /\ tool' = Run("synthesize_knowledge", call, found, res)
    /\ IF res.text = "success"
       THEN /\ knowledge_base' = Append(knowledge_base, item)
            /\ decomposed_goals' = GoalsWithKnowledge(decomposed_goals, item)
       ELSE UNCHANGED <<knowledge_base, decomposed_goals>>
    /\ ret' = NoRet
    /\ UNCHANGED <<requestVars, ledgerVars, cycleVars, researchVars, now>>

\* the goals after add_goal(sub_goal) for n sub-goals
RECURSIVE GoalsDecomposed(_, _)
GoalsDecomposed(goals, n) ==
    IF n = 0 THEN goals
    ELSE LET sofar == GoalsDecomposed(goals, n - 1) IN
         Append(sofar, [NewGoal("A", "pending")
                           EXCEPT !.id = GoalId(Len(sofar) + 1)])

\* GoalDecompositionTool._run: llm.invoke comes before the try block, and
\* the goal is used as it is; the response is a JSON array of n sub-goals
\* or does not parse
DecomposeGoal(call, n) ==
    LET res == IF call.capability # "returns" THEN Escaped
               ELSE IF call.response = "unparsable" THEN ResponseHandler(TRUE)
               ELSE Returned_("success") IN
    /\ call.input = "ok"
    /\ res.text = "success" => Fits(n) /\ Len(decomposed_goals) + n <= MaxGoals
    /\ tool' = Run("decompose_goal", call, TRUE, res)
    /\ decomposed_goals' = IF res.text = "success"
                           THEN GoalsDecomposed(decomposed_goals, n)
                           ELSE decomposed_goals
    /\ ret' = NoRet
    /\ UNCHANGED <<requestVars, knowledgeVars, ledgerVars, cycleVars, researchVars, now>>

\* the entries of the "contradictions" array of a response: each has both
\* of its fields or lacks one
ContradictionEntries ==
    {<<"complete">>, <<"incomplete">>, <<"complete", "complete">>,
     <<"complete", "incomplete">>}

\* how many entries the loop of lines 135-138 records before it stops
RECURSIVE Recorded(_)
Recorded(entries) ==
    IF entries = <<>> \/ Head(entries) = "incomplete" THEN 0
    ELSE 1 + Recorded(Tail(entries))

\* the contradictions after add_contradiction for the first n entries
RECURSIVE ContradictionsRecorded(_, _)
ContradictionsRecorded(contras, n) ==
    IF n = 0 THEN contras
    ELSE LET sofar == ContradictionsRecorded(contras, n - 1) IN
         Append(sofar, NewContradiction(sofar, <<<<"k", 1>>, <<"k", 2>>>>,
                                        "D1"))

\* what the model can answer to detect_contradictions: text that does not
\* parse, no contradictions, or an array of entries (entries that all have
\* their fields, or one that lacks a field)
DetectResponses == {"unparsable", "none_found", "parsed", "missing_field"}

\* the arrays that make the response what it is
EntriesOf(response) ==
    IF response = "parsed"
    THEN {e \in ContradictionEntries : Recorded(e) = Len(e)}
    ELSE IF response = "missing_field"
    THEN {e \in ContradictionEntries : Recorded(e) < Len(e)}
    ELSE {<<>>}

\* ContradictionDetectionTool._run on all of the knowledge base
DetectContradictions(call, entries) ==
    LET enough == Len(knowledge_base) >= 2
        res == IF call.response = "none_found" /\ call.input = "ok" /\ enough
               THEN Returned_("none_found")
               ELSE Path(call, enough, "too_few_items")
        added == IF call.capability = "returns" /\ call.input = "ok" /\ enough
                 THEN Recorded(entries) ELSE 0 IN
    /\ Fits(added)
    /\ Len(contradictions) + added <= MaxContradictions
    /\ tool' = Run("detect_contradictions", call, enough, res)
    /\ contradictions' = ContradictionsRecorded(contradictions, added)
    /\ ret' = NoRet
    /\ UNCHANGED <<requestVars, goalVars, knowledgeVars, ledgerVars, cycleVars,
                   search_iterations, hypotheses, now>>

\* the knowledge base after update_knowledge_item(k, verified=True) for
\* every key of keys
RECURSIVE AllVerified(_, _)
AllVerified(kb, keys) ==
    IF keys = <<>> THEN kb
    ELSE AllVerified(update_knowledge_item(kb, Head(keys), TRUE), Tail(keys))

\* what the model can answer to resolve_contradiction: a status, text that
\* does not parse, or an object that lacks a field
ResolveResponses == {"resolved", "unresolved", "unparsable", "missing_field"}

\* ResolveContradictionTool._run: line 182 reads the contradiction's
\* "conflicting_keys", and the KeyError of a record without it is handled
\* before response is assigned
ResolveContradiction(call, contra_id) ==
    LET i == FirstWithId(contradictions, contra_id)
        found == i # 0
        has_keys == found /\ "conflicting_keys" \in DOMAIN contradictions[i]
        res == IF call.input = "ok" /\ found /\ ~has_keys
               THEN ResponseHandler(FALSE)
               ELSE Path(call, found, "not_found") IN
    /\ tool' = RunOn("resolve_contradiction", call, has_keys, res, contra_id)
    /\ IF res.text = "success"
       THEN /\ contradictions' =
                  update_contradiction_status(contradictions, contra_id,
                                              call.response, Some("merged"))
            /\ knowledge_base' =
                  IF call.response = "resolved"
                  THEN AllVerified(knowledge_base,
                                   contradictions[i].conflicting_keys)
                  ELSE knowledge_base
       ELSE UNCHANGED <<contradictions, knowledge_base>>
    /\ ret' = NoRet
    /\ UNCHANGED <<requestVars, goalVars, ledgerVars, cycleVars, search_iterations,
                   hypotheses, now>>

\* HypothesisGenerationTool._run: no try block; the focus area is used as it
\* is and the response is taken as the hypothesis
GenerateHypothesis(call) ==
    LET res == IF call.capability = "returns" THEN Returned_("success")
               ELSE Escaped IN
    /\ call.input = "ok"
    /\ res.text = "success" => Fits(1) /\ Len(hypotheses) < MaxHypotheses
    /\ tool' = Run("generate_hypothesis", call, TRUE, res)
    /\ hypotheses' = IF res.text = "success"
                     THEN Append(hypotheses,
                                 NewHypothesis(hypotheses, "H", <<>>))
                     ELSE hypotheses
    /\ ret' = NoRet
    /\ UNCHANGED <<requestVars, goalVars, knowledgeVars, ledgerVars, cycleVars,
                   search_iterations, contradictions, now>>

\* the knowledge base after the loop of lines 296-309 over the search results
RECURSIVE WithEvidence(_, _, _, _)
WithEvidence(kb, hyp_id, results, n) ==
    IF n = 0 THEN kb
    ELSE Append(WithEvidence(kb, hyp_id, results, n - 1),
                [KnowledgeItem(EvidenceKey(hyp_id, n),
                               results[n].publish_date, None)
                    EXCEPT !.confidence = results[n].confidence])

\* what the model can answer to verify_hypothesis; the status is read before
\* the hypothesis is updated and the reason after
VerifyResponses == {"parsed", "unparsable", "missing_status", "missing_reason"}

\* verify_hypothesis with the bug of searching before the hypothesis is
\* looked up
VerifyHypothesisUnchecked(call, hyp_id, exchange, n) ==
    LET found == TRUE
        searched == web_search("duckduckgo", FALSE, exchange, n)
        results == searched.items
        called == found /\ ~searched.raised
        answered == called /\ call.capability = "returns"
        updated == answered /\ call.response \in {"parsed", "missing_reason"}
        res == IF ~found THEN Returned_("not_found")
               ELSE IF ~answered THEN ResponseHandler(FALSE)
               ELSE IF call.response = "parsed" THEN Returned_("success")
               ELSE ResponseHandler(TRUE) IN
    /\ call.input = "ok"
    /\ found => Fits(Len(results))
    /\ tool' = [RunOn("verify_hypothesis", call, called, res, hyp_id)
                  EXCEPT !.response =
                             IF @ \in {"missing_status", "missing_reason"}
                             THEN "missing_field" ELSE @]
                  @@ [searched |-> found]
    /\ knowledge_base' = IF called
                         THEN WithEvidence(knowledge_base, hyp_id, results,
                                           Len(results))
                         ELSE knowledge_base
    /\ hypotheses' = IF updated
                     THEN update_hypothesis_status(hypotheses, hyp_id,
                              "supported", <<EvidenceKey(hyp_id, 1)>>, <<>>)
                     ELSE hypotheses
    /\ ret' = NoRet
    /\ UNCHANGED <<requestVars, goalVars, ledgerVars, cycleVars, search_iterations,
                   contradictions, now>>

\* VerifyHypothesisTool._run: the search and the evidence come before the
\* model is called; the input is the hypothesis id as it is
VerifyHypothesis(call, hyp_id, exchange, n) ==
    LET found == FirstWithId(hypotheses, hyp_id) # 0
        searched == web_search("duckduckgo", FALSE, exchange, n)
        results == searched.items
        called == found /\ ~searched.raised
        answered == called /\ call.capability = "returns"
        updated == answered /\ call.response \in {"parsed", "missing_reason"}
        res == IF ~found THEN Returned_("not_found")
               ELSE IF ~answered THEN ResponseHandler(FALSE)
               ELSE IF call.response = "parsed" THEN Returned_("success")
               ELSE ResponseHandler(TRUE) IN
    /\ call.input = "ok"
    /\ found => Fits(Len(results))
    /\ tool' = [RunOn("verify_hypothesis", call, called, res, hyp_id)
                  EXCEPT !.response =
                             IF @ \in {"missing_status", "missing_reason"}
                             THEN "missing_field" ELSE @]
                  @@ [searched |-> found]
    /\ knowledge_base' = IF called
                         THEN WithEvidence(knowledge_base, hyp_id, results,
                                           Len(results))
                         ELSE knowledge_base
    /\ hypotheses' = IF updated
                     THEN update_hypothesis_status(hypotheses, hyp_id,
                              "supported", <<EvidenceKey(hyp_id, 1)>>, <<>>)
                     ELSE hypotheses
    /\ ret' = NoRet
    /\ UNCHANGED <<requestVars, goalVars, ledgerVars, cycleVars, search_iterations,
                   contradictions, now>>

\* UpdateGoalStatusTool._run: no capability is called
UpdateGoalStatusTool(call, goal_id, status) ==
    /\ call.capability = "none"
    /\ tool' = RunOn("update_goal_status", call, FALSE,
                     IF call.input = "ok" THEN Returned_("success")
                     ELSE InputHandler, goal_id)
    /\ decomposed_goals' = IF call.input = "ok"
                           THEN update_goal_status(decomposed_goals, goal_id,
                                                   status)
                           ELSE decomposed_goals
    /\ ret' = NoRet
    /\ UNCHANGED <<requestVars, knowledgeVars, ledgerVars, cycleVars, researchVars, now>>

----------------------------------------------------------------------------
(* analyze_knowledge_freshness *)

AgeBuckets == {"1_month", "1_3_months", "3_6_months", "6_months_1_year",
               "over_1_year"}

\* the loop body of lines 45-64: the bucket an item is counted in; a month is
\* 30 days and a year 365
FreshnessBucket(item, today) ==
    IF item.publish_date = None \/ item.publish_date[1].form = "empty"
    THEN "over_1_year"
    ELSE LET pub_date == parse_date(item.publish_date[1]) IN
         IF ~pub_date.ok \/ pub_date.aware THEN "over_1_year"
         ELSE LET age == today - pub_date.day IN
              IF age < 30 THEN "1_month"
              ELSE IF age < 90 THEN "1_3_months"
              ELSE IF age < 180 THEN "3_6_months"
              ELSE IF age < 365 THEN "6_months_1_year"
              ELSE "over_1_year"

\* age_buckets after the loop over recent_knowledge
BucketCounts(kb, recent, today) ==
    [b \in AgeBuckets |->
        Cardinality({i \in DOMAIN recent :
                        FreshnessBucket(kb[recent[i]], today) = b})]

\* the time_period argument: text that stands for a number of days, or text
\* whose number int() rejects
Periods ==
    {[ok |-> TRUE, days |-> d] : d \in {30, 40, MaxWindow}}
    \cup {[ok |-> FALSE, days |-> 0]}

\* KnowledgeFreshnessAnalysisTool._run from line 34 on, for the outcome of
\* the conversion of time_period: nothing is caught outside the loop
FreshnessRun(period) ==
    LET recent == IF ~period.ok THEN [raised |-> TRUE, items |-> <<>>]
                  ELSE get_knowledge_by_recency(knowledge_base, now,
                                                period.days)
        res == IF recent.raised THEN Escaped
               ELSE IF recent.items = <<>> THEN Returned_("none_found")
               ELSE Returned_("report") IN
    [name |-> "analyze_knowledge_freshness",
     input |-> IF period.ok THEN "ok" ELSE "malformed",
     capability |-> "none", response |-> "none",
     arg |-> period.days,
     raised |-> res.raised, text |-> res.text,
     found |-> Len(recent.items),
     buckets |-> BucketCounts(knowledge_base, recent.items, now)]

\* KnowledgeFreshnessAnalysisTool._run
AnalyzeKnowledgeFreshness(period) ==
    /\ tool' = FreshnessRun(period)
    /\ ret' = NoRet
    /\ UNCHANGED <<requestVars, goalVars, knowledgeVars, ledgerVars, cycleVars,
                   researchVars, now>>

\* a time_period text: its digits (None when it has none), whether the
\* counter word (ge) stands between the digits and the unit, and the unit
\* character it contains ("none" when it contains none of the three)
TimePeriod(digits, ge, unit) == [digits |-> digits, ge |-> ge, unit |-> unit]

PeriodUnits == {"day", "month", "year", "none"}
PeriodDigits == {None, Some(1), Some(3), Some(6), Some(30)}
TimePeriods ==
    {TimePeriod(d, g, u) : d \in PeriodDigits, g \in BOOLEAN, u \in PeriodUnits}

UnitDays(unit) ==
    IF unit = "day" THEN 1 ELSE IF unit = "month" THEN 30 ELSE 365

\* lines 25-32: the unit character is removed and int() is applied to what
\* is left, which raises ValueError unless that is digits alone
time_period_days(time_period) ==
    IF time_period.unit = "none" THEN [ok |-> TRUE, days |-> 365]
    ELSE IF time_period.digits = None \/ time_period.ge
    THEN [ok |-> FALSE, days |-> 0]
    ELSE [ok |-> TRUE,
          days |-> time_period.digits[1] * UnitDays(time_period.unit)]

\* KnowledgeFreshnessAnalysisTool._run(time_period)
AnalyzeKnowledgeFreshnessOn(time_period) ==
    /\ tool' = FreshnessRun(time_period_days(time_period))
                  @@ [time_period |-> time_period,
                      days |-> time_period_days(time_period)]
    /\ ret' = NoRet
    /\ UNCHANGED <<requestVars, goalVars, knowledgeVars, ledgerVars, cycleVars,
                   researchVars, now>>

----------------------------------------------------------------------------
(* The planner's tool calls on one state *)

\* publish dates the model reports for extracted knowledge
ExtractedDates ==
    {None, Some(DateText("garbage", 0)), Some(DateText("iso", StartDay))}

\* how many results the provider returns: only a successful exchange has
\* any
ResultCounts(exchange) ==
    IF exchange = "results" THEN 1..MaxResults ELSE {0}

\* a call on an existing state, as an input and nothing else
InputOnly(input) ==
    [input |-> input, capability |-> "none", response |-> "none"]

NextTools ==
    \/ \E call \in Calls(ModelResponses) :
          \E key \in IF call.response = "parsed" THEN ToolKeys
                     ELSE {<<"k", 1>>},
             publish_date \in IF call.response = "parsed" THEN ExtractedDates
                              ELSE {None} :
             ExtractInformation(call, key, publish_date)
    \/ \E call \in Calls(ModelResponses) :
          SynthesizeKnowledge(call, <<<<"k", 1>>>>, <<"k", 2>>)
    \/ \E call \in Calls({"parsed", "unparsable"}) :
          \E n \in IF call.response = "parsed" THEN 1..MaxGoals ELSE {0} :
             DecomposeGoal(call, n)
    \/ \E call \in Calls(DetectResponses) :
          \E entries \in EntriesOf(call.response) :
             DetectContradictions(call, entries)
    \/ \E call \in Calls(ResolveResponses), contra_id \in ContraIds :
          ResolveContradiction(call, contra_id)
    \/ \E call \in Calls({"text"}) : GenerateHypothesis(call)
    \/ \E call \in Calls(VerifyResponses), hyp_id \in HypIds :
          VerifyHypothesis(call, hyp_id, "timeout", 0)
    \/ \E input \in ToolInputs, goal_id \in GoalIds :
          UpdateGoalStatusTool(InputOnly(input), goal_id, "completed")
    \/ \E period \in Periods : AnalyzeKnowledgeFreshness(period)

SpecTools == Init /\ [][NextTools]_vars

\* the search tool, alone and under the hypothesis tools
NextSearch ==
    \/ \E setup \in SearchSetups, exchange \in ProviderOutcomes :
          \E n \in ResultCounts(exchange) : WebSearch(setup, exchange, n)
    \/ \E call \in Calls({"text"}) : GenerateHypothesis(call)
    \/ \E call \in Calls(VerifyResponses), hyp_id \in HypIds,
          exchange \in ProviderOutcomes :
          \E n \in ResultCounts(exchange) :
             VerifyHypothesis(call, hyp_id, exchange, n)
    \/ Tick

SpecSearch == Init /\ [][NextSearch]_vars

\* the tools that take the id of a hypothesis or of a contradiction, over a
\* state that the tools themselves have filled
NextLookup ==
    \/ \E call \in Calls({"parsed"}) :
          ExtractInformation(call, <<"k", 1>>, None)
    \/ \E call \in Calls(DetectResponses) :
          \E entries \in EntriesOf(call.response) :
             DetectContradictions(call, entries)
    \/ \E call \in Calls(ResolveResponses), contra_id \in ContraIds :
          ResolveContradiction(call, contra_id)
    \/ \E call \in Calls({"text"}) : GenerateHypothesis(call)
    \/ \E call \in Calls(VerifyResponses), hyp_id \in HypIds :
          VerifyHypothesis(call, hyp_id, "timeout", 0)

SpecLookup == Init /\ [][NextLookup]_vars

----------------------------------------------------------------------------
(* Properties of the research state's operations *)

\* the update of a contradiction that is there, to resolved, with a text
ResolvingCall(r, contras) ==
    /\ r.op = "update_contradiction_status"
    /\ r.status = "resolved"
    /\ Truthy(r.text)
    /\ FirstWithId(contras, r.contra_id) # 0

\* C12: update_contradiction_status(id, "resolved", text) with a non-empty
\* text, on the id of a recorded contradiction, leaves that entry resolved
\* with the text as its resolution; its description, its conflicting keys and
\* every other contradiction stay as they were.
C12_ResolveContradiction ==
    [][ResolvingCall(ret', contradictions) =>
         LET i == FirstWithId(contradictions, ret'.contra_id) IN
         /\ Len(contradictions') = Len(contradictions)
         /\ contradictions'[i].status = "resolved"
         /\ contradictions'[i].resolution_attempt_description = ret'.text
         /\ contradictions'[i].id = contradictions[i].id
         /\ contradictions'[i].description = contradictions[i].description
         /\ contradictions'[i].conflicting_knowledge_ids
               = contradictions[i].conflicting_knowledge_ids
         /\ \A j \in DOMAIN contradictions :
               j # i => contradictions'[j] = contradictions[j]]_vars

\* one of two contradictions has just been resolved, the other has not
C12_Witness ==
    /\ Len(contradictions) = 2
    /\ ResolvingCall(ret, contradictions)
    /\ ret.value
    /\ \E i, j \in DOMAIN contradictions :
          /\ contradictions[i].id = ret.contra_id
          /\ contradictions[i].status = "resolved"
          /\ contradictions[i].resolution_attempt_description = ret.text
          /\ contradictions[j].status = "unresolved"

\* the i-th entry of every tracker carries the i-th id
IdsInOrder ==
    /\ \A i \in DOMAIN decomposed_goals : decomposed_goals[i].id = GoalId(i)
    /\ \A i \in DOMAIN hypotheses : hypotheses[i].id = HypId(i)
    /\ \A i \in DOMAIN contradictions : contradictions[i].id = ContraId(i)
    /\ \A i \in DOMAIN search_iterations :
          search_iterations[i].id = SearchId(i)

\* a hypothesis or a contradiction added by this step has its first status
NewEntriesStatus ==
    /\ Len(hypotheses') > Len(hypotheses) =>
          Last(hypotheses').status = "pending_verification"
    /\ Len(contradictions') > Len(contradictions) =>
          Last(contradictions').status = "unresolved"

\* C13 as stated: ids are goal_i, hyp_i, contra_i and search_i in creation
\* order, and every new goal starts as pending, every new hypothesis as
\* pending_verification and every new contradiction as unresolved.
C13_AsStated ==
    [][/\ IdsInOrder'
       /\ NewEntriesStatus
       /\ Len(decomposed_goals') > Len(decomposed_goals) =>
             Last(decomposed_goals').status = "pending"]_vars

\* C13: ids are goal_i, hyp_i, contra_i and search_i in creation order; a new
\* goal starts with the status add_goal was given, pending when it was given
\* none; a new hypothesis starts as pending_verification and a new
\* contradiction as unresolved.
C13_IdentifierDiscipline ==
    [][/\ IdsInOrder'
       /\ NewEntriesStatus
       /\ Len(decomposed_goals') > Len(decomposed_goals) =>
             /\ ret'.op = "add_goal"
             /\ Last(decomposed_goals').status =
                   IF ret'.status = None THEN "pending"
                   ELSE ret'.status[1]]_vars

\* two goals, the second added with a status of its own, and a hypothesis
C13_Witness ==
    /\ Len(decomposed_goals) = 2
    /\ decomposed_goals[2].id = GoalId(2)
    /\ decomposed_goals[2].status = "completed"
    /\ decomposed_goals[2].completed_at = None
    /\ Len(hypotheses) = 1

\* the fields of EnhancedExecutionState
StateFields ==
    <<decomposed_goals, search_iterations, knowledge_base, hypotheses,
      contradictions, current_generation, current_score, current_criticism,
      history>>

\* C17: get_state_summary() changes no field of the research state, what it
\* returns is what a second call in the state it leaves would return, and its
\* goal lines follow the order in which the goals were created.
C17_SummaryPure ==
    [][ret'.op = "get_state_summary" =>
         /\ StateFields' = StateFields
         /\ ret'.value = get_state_summary'
         /\ Len(ret'.value.goal_lines) = Len(decomposed_goals)
         /\ \A i \in DOMAIN decomposed_goals :
               ret'.value.goal_lines[i][1] = GoalId(i)]_vars

\* a summary of a state with two goals and a committed generation
C17_Witness ==
    /\ ret.op = "get_state_summary"
    /\ Len(decomposed_goals) = 2
    /\ Len(ret.value.goal_lines) = 2
    /\ ret.value.attempts = 2

\* what identifies an entry of each collection
GoalIdentity(g) == <<g.id, g.description, g.created_at>>
SearchIdentity(x) == <<x.id, x.query, x.timestamp>>
KnowledgeIdentity(k) == <<k.key, k.added_at, k.goal_id, k.publish_date>>
HypothesisIdentity(h) == <<h.id, h.hypothesis>>
ContradictionIdentity(c) == <<c.id, c.description>>

\* C19: no step shortens the goal, search-iteration, knowledge, hypothesis,
\* contradiction or history collection, and every entry stays at its position.
C19_NeverDeleted ==
    [][/\ \A i \in DOMAIN decomposed_goals :
             /\ i \in DOMAIN decomposed_goals'
             /\ GoalIdentity(decomposed_goals'[i])
                   = GoalIdentity(decomposed_goals[i])
       /\ \A i \in DOMAIN search_iterations :
             /\ i \in DOMAIN search_iterations'
             /\ SearchIdentity(search_iterations'[i])
                   = SearchIdentity(search_iterations[i])
       /\ \A i \in DOMAIN knowledge_base :
             /\ i \in DOMAIN knowledge_base'
             /\ KnowledgeIdentity(knowledge_base'[i])
                   = KnowledgeIdentity(knowledge_base[i])
       /\ \A i \in DOMAIN hypotheses :
             /\ i \in DOMAIN hypotheses'
             /\ HypothesisIdentity(hypotheses'[i])
                   = HypothesisIdentity(hypotheses[i])
       /\ \A i \in DOMAIN contradictions :
             /\ i \in DOMAIN contradictions'
             /\ ContradictionIdentity(contradictions'[i])
                   = ContradictionIdentity(contradictions[i])
       /\ \A i \in DOMAIN history :
             /\ i \in DOMAIN history'
             /\ history'[i] = history[i]]_vars

\* a knowledge item has been updated and an entry of another kind has
\* followed it
C19_Witness ==
    /\ Len(knowledge_base) = 1
    /\ knowledge_base[1].verified
    /\ Len(history) = 1
    /\ Len(contradictions) = 1
    /\ contradictions[1].status = "resolved"

----------------------------------------------------------------------------
(* Properties of the tools *)

\* C11: a freshness report counts every knowledge item whose publish_date is
\* missing or does not parse in its oldest bucket, over 1 year.
C11_UndatedInOldestBucket ==
    (tool.name = "analyze_knowledge_freshness" /\ ~tool.raised) =>
        tool.buckets["over_1_year"]
            >= Cardinality({i \in DOMAIN knowledge_base : Undated(i)})

\* the provider did not answer the search with a list of results
ProviderFailed(run) ==
    \/ run.exchange \in {"http_error", "timeout", "malformed"}
    \/ run.setup.engine = "google" /\ ~run.setup.credentials

\* C14: web_search._run raises nothing and returns at least one item whatever
\* the provider does; when the provider failed, no item comes from it.
C14_SearchNeverEmpty ==
    tool.name = "web_search" =>
        /\ ~tool.raised
        /\ Len(tool.items) >= 1
        /\ ProviderFailed(tool) =>
              \A i \in DOMAIN tool.items : tool.items[i].origin # "provider"

\* a search that timed out has returned the example result
C14_Witness ==
    /\ tool.name = "web_search"
    /\ tool.exchange = "timeout"
    /\ Len(tool.items) = 1
    /\ tool.items[1].origin = "example"
    /\ tool.items[1].publish_date = Some(DateText("iso", now - 5))

\* C15: no _run lets an exception escape, and a _run whose input is malformed
\* or whose capability call raises returns a failure text.
C15_FailuresCaught ==
    tool.name # "none" =>
        /\ ~tool.raised
        /\ (tool.input = "malformed" \/ tool.capability = "raises") =>
              tool.text = "failure"

\* the tools that read a model response as structured data
ParsingTools ==
    {"extract_information", "synthesize_knowledge", "decompose_goal",
     "detect_contradictions", "resolve_contradiction", "verify_hypothesis"}

\* C16: a _run of a parsing tool whose model response does not parse or lacks
\* a required field leaves every field of the research state as it was.
C16_NoWriteOnBadResponse ==
    [][(/\ tool'.name \in ParsingTools
        /\ tool'.response \in {"unparsable", "missing_field"})
          => StateFields' = StateFields]_vars

\* C20: resolve_contradiction on a recorded contradiction, with a model that
\* answers "resolved", returns normally and leaves the contradiction resolved
\* with the resolution text and every knowledge item of its conflicting keys
\* verified.
C20_ResolvedMarksVerified ==
    (/\ tool.name = "resolve_contradiction"
     /\ tool.input = "ok"
     /\ tool.answer = "resolved"
     /\ FirstWithId(contradictions, tool.arg) # 0) =>
        LET contra == contradictions[FirstWithId(contradictions, tool.arg)]
        IN
        /\ ~tool.raised
        /\ contra.status = "resolved"
        /\ contra.resolution_attempt_description = Some("merged")
        /\ \A j \in DOMAIN contra.conflicting_knowledge_ids :
              \A i \in DOMAIN knowledge_base :
                 knowledge_base[i].key = contra.conflicting_knowledge_ids[j]
                    => knowledge_base[i].verified

----------------------------------------------------------------------------
(* Properties of the cycle's caller *)

----------------------------------------------------------------------------
(* The tools that add knowledge items *)

\* confidences a model's response can name, in tenths
Confidences == {-2, 0, 7, 10, 15}

NextAdders ==
    \/ \E call \in Calls({"parsed", "unparsable"}) :
          \E confidence \in IF call.response = "parsed" THEN Confidences
                            ELSE {7} :
             ExtractInformationOf(call, <<"k", 1>>, None, confidence)
    \/ \E call \in Calls({"parsed"}) :
          SynthesizeKnowledge(call, <<<<"k", 1>>>>, <<"k", 2>>)
    \/ \E call \in Calls({"text"}) : GenerateHypothesis(call)
    \/ \E call \in Calls({"parsed"}), n \in 1..MaxResults :
          VerifyHypothesis(call, HypId(1), "results", n)

SpecAdders == Init /\ [][NextAdders]_vars

----------------------------------------------------------------------------
(* The cycle under a caller that asks it to stop.  _run(purpose) takes no   *)
(* cancellation argument and reads no flag between its stages, so the       *)
(* request is a fact of the caller's side only: no action of the cycle      *)
(* reads cancel_requested.                                                  *)

\* the caller asks the cycle in progress to stop
RequestCancel ==
    /\ pc # "idle"
    /\ ~cancel_requested
    /\ cancel_requested' = TRUE
    /\ UNCHANGED <<prompt_input, apiVars, goalVars, knowledgeVars, researchVars,
                   toolVars, ledgerVars, cycleVars, now, ret>>

NextCancel ==
    \/ StartCycle
    \/ \E c \in Contents : GenerateReturns(c)
    \/ GenerateFails
    \/ \E resp \in RewarderResponses : ScoreReturns(resp)
    \/ ScoreFails
    \/ \E text \in Critiques : CritiqueReturns(text)
    \/ CritiqueFails
    \/ RequestCancel

SpecCancel == Init /\ [][NextCancel]_vars

----------------------------------------------------------------------------
(* The freshness report on time_period texts *)

NextFreshness ==
    \/ \E publish_date \in ExtractedDates :
          AddKnowledge("k1", publish_date, None)
    \/ \E time_period \in TimePeriods :
          AnalyzeKnowledgeFreshnessOn(time_period)
    \/ Tick

SpecFreshness == Init /\ [][NextFreshness]_vars

----------------------------------------------------------------------------
(* The generation ledger on its own *)

NextLedger ==
    \/ \E content \in Contents, crit \in Critiques :
          AddGeneration(content, 7, crit)
    \/ GetStateSummary

SpecLedger == Init /\ [][NextLedger]_vars

----------------------------------------------------------------------------
(* Goals, searches and knowledge items that refer to goals *)

\* goal_id arguments: none, and the ids of the goals that can exist
GoalRefsAll == {None} \cup {Some(GoalId(n)) : n \in 1..MaxGoals}

MaxReferences == 4   \* goals, searches and knowledge items added together

NextReferences ==
    \/ TotalEntities < MaxReferences /\ AddGoalWith("A", None)
    \/ \E goal_id \in GoalRefsAll :
          TotalEntities < MaxReferences /\ AddIteration("q", 1, goal_id)
    \/ \E key \in KnowledgeKeys, goal_id \in GoalRefsAll :
          /\ TotalEntities < MaxReferences
          /\ AddKnowledge(key, Some(DateText("iso", StartDay)), goal_id)

SpecReferences == Init /\ [][NextReferences]_vars

(***************************************************************************)
(* The task registry of the HTTP service.  start_research,                 *)
(* get_task_status and delete_task are coroutines without an await, and    *)
(* execute_research_task is a coroutine whose only work, agent.run, is a   *)
(* blocking call: each runs from its first line to its last with nothing   *)
(* in between.  A job added by start_research starts after the response    *)
(* has been sent, so other requests can be served before it starts.        *)
(***************************************************************************)

\* the most execute_research_task jobs added and not yet run
MaxJobs == 2

\* what agent.run makes of a task: it returns, or it raises
AgentRuns == {"completed", "failed"}

\* the sequence without its i-th element
WithoutJob(jobs, i) == SubSeq(jobs, 1, i - 1) \o SubSeq(jobs, i + 1, Len(jobs))

\* POST /research: the entry of task_id is assigned, whether or not the
\* registry holds one, and a job is added for it
StartResearch(task_id) ==
    /\ Len(background_tasks) < MaxJobs
    /\ task_storage' = [task_storage EXCEPT ![task_id] = Some("initializing")]
    /\ background_tasks' = Append(background_tasks, task_id)
    /\ ret' = [op |-> "start_research", task_id |-> task_id,
               before |-> task_storage[task_id], status |-> "started"]
    /\ UNCHANGED <<prompt_input, cancel_requested, goalVars, knowledgeVars,
                   researchVars, toolVars, ledgerVars, cycleVars, now>>

\* a job added earlier runs: task_storage[task_id]["status"] = "running",
\* agent.run, then "completed", or "failed" in the handler of the try.  With
\* no entry the first assignment raises KeyError inside the try, and the
\* handler's own task_storage[task_id]["status"] = "failed" raises it again,
\* outside any try
ExecuteResearchTask(i, agent_run) ==
    /\ i \in 1..Len(background_tasks)
    /\ LET task_id == background_tasks[i]
           present == task_storage[task_id] # None
       IN  /\ task_storage' =
                  IF present
                  THEN [task_storage EXCEPT ![task_id] = Some(agent_run)]
                  ELSE task_storage
           /\ ret' = [op |-> "execute_research_task", task_id |-> task_id,
                      before |-> task_storage[task_id],
                      writes |-> IF present THEN <<"running", agent_run>>
                                 ELSE <<>>,
                      raised |-> ~present]
    /\ background_tasks' = WithoutJob(background_tasks, i)
    /\ UNCHANGED <<prompt_input, cancel_requested, goalVars, knowledgeVars,
                   researchVars, toolVars, ledgerVars, cycleVars, now>>

\* GET /status/{task_id}: 404 without an entry, else the entry's status
GetTaskStatus(task_id) ==
    /\ ret' = [op |-> "get_task_status", task_id |-> task_id,
               before |-> task_storage[task_id],
               code |-> IF task_storage[task_id] = None THEN 404 ELSE 200,
               value |-> task_storage[task_id]]
    /\ UNCHANGED <<requestVars, goalVars, knowledgeVars, researchVars,
                   toolVars, ledgerVars, cycleVars, now>>

\* DELETE /tasks/{task_id}: 404 without an entry, else the entry is removed,
\* whatever its status and whether or not its job has run
DeleteTask(task_id) ==
    /\ task_storage' = [task_storage EXCEPT ![task_id] = None]
    /\ ret' = [op |-> "delete_task", task_id |-> task_id,
               before |-> task_storage[task_id],
               code |-> IF task_storage[task_id] = None THEN 404 ELSE 200]
    /\ UNCHANGED <<prompt_input, cancel_requested, background_tasks, goalVars,
                   knowledgeVars, researchVars, toolVars, ledgerVars,
                   cycleVars, now>>

NextRegistry ==
    \/ \E task_id \in TaskIds : StartResearch(task_id)
    \/ \E i \in 1..MaxJobs, agent_run \in AgentRuns :
           ExecuteResearchTask(i, agent_run)
    \/ \E task_id \in TaskIds : GetTaskStatus(task_id)
    \/ \E task_id \in TaskIds : DeleteTask(task_id)

SpecRegistry == Init /\ [][NextRegistry]_vars

----------------------------------------------------------------------------
(* The goal tracker with the arguments of update_goal_status recorded *)

\* statuses the goals are moved between
GoalStatuses == {"pending", "in_progress", "completed"}

NextGoalStatus ==
    \/ \E status \in {None} \cup {Some(st) : st \in GoalStatuses} :
          AddGoalWith("A", status)
    \/ \E goal_id \in GoalIds, status \in GoalStatuses :
          UpdateGoalStatusCall(goal_id, status)
    \/ Tick

SpecGoalStatus == Init /\ [][NextGoalStatus]_vars

----------------------------------------------------------------------------
(* The hypotheses on their own *)

MaxEvidence == 3     \* knowledge keys held by all hypotheses together

RECURSIVE EvidenceCount(_)
EvidenceCount(hyps) ==
    IF hyps = <<>> THEN 0
    ELSE Len(hyps[1].supporting_knowledge_ids)
         + Len(hyps[1].contradicting_knowledge_ids)
         + EvidenceCount(Tail(hyps))

\* key lists passed to the hypothesis operations: none, one key, and two
\* keys in an order that is not the order of their names
SupportingLists == {<<>>, <<"k1">>, <<"k2", "k1">>}
ContradictingLists == {<<>>, <<"k2">>}

NextHypotheses ==
    \/ \E supporting \in {<<>>, <<"k1">>} :
          /\ EvidenceCount(hypotheses) + Len(supporting) <= MaxEvidence
          /\ AddHypothesis("H", supporting)
    \/ \E hyp_id \in HypIds, status \in HypothesisStatuses,
          supporting \in SupportingLists,
          contradicting \in ContradictingLists :
          /\ EvidenceCount(hypotheses) + Len(supporting)
                + Len(contradicting) <= MaxEvidence
          /\ UpdateHypothesisStatus(hyp_id, status, supporting,
                                    contradicting)

SpecHypotheses == Init /\ [][NextHypotheses]_vars

----------------------------------------------------------------------------
(* The knowledge store under keys that repeat *)

GetKnowledgeItem(key) ==
    /\ ret' = [op |-> "get_knowledge_item", key |-> key,
               value |-> get_knowledge_item(knowledge_base, key)]
    /\ UNCHANGED <<requestVars, goalVars, knowledgeVars, researchVars,
                   toolVars, ledgerVars, cycleVars, now>>

NextKeys ==
    \/ \E key \in KnowledgeKeys :
          AddKnowledge(key, Some(DateText("iso", StartDay)), None)
    \/ \E key \in KnowledgeKeys, verified \in BOOLEAN :
          UpdateKnowledgeItem(key, verified)
    \/ \E key \in KnowledgeKeys : GetKnowledgeItem(key)
    \/ Tick

SpecKeys == Init /\ [][NextKeys]_vars

----------------------------------------------------------------------------
(* Properties of the update operations *)

\* the goal a step's update_goal_status call changed
GoalUpdated(r, goals, i) ==
    /\ r.op = "update_goal_status"
    /\ FirstGoal(goals, r.goal_id) = i

\* C21: update_goal_status moves an existing goal to the status passed,
\* whatever its status was, and stamps completed_at only when that status
\* is completed; no step clears a completed_at that is set, not even a move
\* out of completed, and completed_at stays None for a goal that no call has
\* moved to completed (a new goal has None, and only such a call changes it).
C21_CompletedAtOnUpdate ==
    [][/\ \A i \in DOMAIN decomposed_goals :
            LET g == decomposed_goals[i]
                h == decomposed_goals'[i] IN
            /\ GoalUpdated(ret', decomposed_goals, i) =>
                  /\ h.status = ret'.status
                  /\ h.completed_at = IF ret'.status = "completed"
                                      THEN Some(now) ELSE g.completed_at
            /\ ~GoalUpdated(ret', decomposed_goals, i) =>
                  h.completed_at = g.completed_at
            /\ g.completed_at # None => h.completed_at # None
       /\ \A i \in DOMAIN decomposed_goals' \ DOMAIN decomposed_goals :
            decomposed_goals'[i].completed_at = None]_vars

\* a goal moved out of completed by the last call keeps its completed_at
C21_Witness ==
    /\ ret.op = "update_goal_status"
    /\ \E i \in DOMAIN decomposed_goals :
          /\ decomposed_goals[i].id = ret.goal_id
          /\ ret.status = "in_progress"
          /\ decomposed_goals[i].status = "in_progress"
          /\ decomposed_goals[i].completed_at = Some(StartDay)
          /\ now = StartDay + 1

\* C22: every goal whose status is completed has completed_at set, whether
\* add_goal or update_goal_status gave it that status.
C22_CompletedHasTimestamp ==
    \A i \in DOMAIN decomposed_goals :
        decomposed_goals[i].status = "completed" =>
            decomposed_goals[i].completed_at # None

\* the hypothesis a step's update_hypothesis_status call changed, 0 if none
HypothesisUpdated(r, hyps) ==
    IF r.op = "update_hypothesis_status" THEN FirstWithId(hyps, r.hyp_id)
    ELSE 0

\* C23: update_hypothesis_status on an existing hypothesis sets the status
\* passed, whatever the status was, and only appends to the two key lists:
\* the list afterwards is the list before followed by the keys passed, in
\* the order passed and with keys already present added again.
C23_AppendOnly ==
    [][LET i == HypothesisUpdated(ret', hypotheses) IN
       i # 0 =>
         LET g == hypotheses[i]
             h == hypotheses'[i] IN
         /\ ret'.value = TRUE
         /\ h.status = ret'.status
         /\ h.supporting_knowledge_ids =
               g.supporting_knowledge_ids \o ret'.supporting
         /\ h.contradicting_knowledge_ids =
               g.contradicting_knowledge_ids \o ret'.contradicting
         /\ IsPrefix(g.supporting_knowledge_ids, h.supporting_knowledge_ids)
         /\ IsPrefix(g.contradicting_knowledge_ids,
                     h.contradicting_knowledge_ids)]_vars

\* the last call appended k2, k1 to a list that already held k1, and moved
\* a hypothesis that was not pending_verification back to supported
C23_Witness ==
    /\ ret.op = "update_hypothesis_status"
    /\ ret.supporting = <<"k2", "k1">>
    /\ ret.status = "supported"
    /\ \E i \in DOMAIN hypotheses :
          /\ hypotheses[i].id = ret.hyp_id
          /\ hypotheses[i].supporting_knowledge_ids = <<"k1", "k2", "k1">>
          /\ hypotheses[i].status = "supported"

\* the call recorded in r names a goal, knowledge key, hypothesis or
\* contradiction that the state does not hold
UnknownTarget(r) ==
    \/ r.op = "update_goal_status"
         /\ FirstGoal(decomposed_goals, r.goal_id) = 0
    \/ r.op = "update_knowledge_item"
         /\ FirstWithKey(knowledge_base, r.key) = 0
    \/ r.op = "update_hypothesis_status"
         /\ FirstWithId(hypotheses, r.hyp_id) = 0
    \/ r.op = "update_contradiction_status"
         /\ FirstWithId(contradictions, r.contra_id) = 0

\* C24: update_goal_status, update_knowledge_item, update_hypothesis_status
\* and update_contradiction_status called with an id or key the state does
\* not hold return without raising and leave every field of the state as it
\* was; update_goal_status returns nothing, the other three return False.
C24_UnknownIsNoOp ==
    [][UnknownTarget(ret') =>
         /\ StateFields' = StateFields
         /\ IF ret'.op = "update_goal_status" THEN ret'.value = None
            ELSE ret'.value = FALSE]_vars

\* update_goal_status has just been called with the id after the last one
\* on a state that holds a goal, a knowledge item and a hypothesis
C24_Witness ==
    /\ ret.op = "update_goal_status"
    /\ ret.goal_id = GoalId(MaxGoals + 1)
    /\ decomposed_goals # <<>>
    /\ knowledge_base # <<>>
    /\ hypotheses # <<>>

\* the positions of the items filed under key
Holders(key) == {i \in DOMAIN knowledge_base : knowledge_base[i].key = key}

\* the position of the item under key that was added first, 0 if none was
Earliest(key) ==
    IF Holders(key) = {} THEN 0
    ELSE CHOOSE i \in Holders(key) : \A j \in Holders(key) : i <= j

\* C25: keys are not unique.  add_knowledge appends whatever the key, so
\* items with one key stay side by side; get_knowledge_item(k) returns the
\* item under k that was added first, None when there is none, and
\* update_knowledge_item(k, ...) changes that item only.
C25_EarliestWins ==
    [][/\ Len(knowledge_base') # Len(knowledge_base) =>
            /\ Len(knowledge_base') = Len(knowledge_base) + 1
            /\ SubSeq(knowledge_base', 1, Len(knowledge_base))
                  = knowledge_base
       /\ ret'.op = "get_knowledge_item" =>
            /\ ret'.value = Earliest(ret'.key)
            /\ knowledge_base' = knowledge_base
       /\ ret'.op = "update_knowledge_item" =>
            /\ ret'.value = (Earliest(ret'.key) # 0)
            /\ Len(knowledge_base') = Len(knowledge_base)
            /\ \A i \in DOMAIN knowledge_base :
                  knowledge_base'[i] =
                     IF i = Earliest(ret'.key)
                     THEN [knowledge_base[i] EXCEPT
                              !.verified = ret'.verified]
                     ELSE knowledge_base[i]]_vars

\* two items under k1, added on different days; the last call set verified
\* on the one added first and the other one is as it was added
C25_Witness ==
    /\ ret.op = "update_knowledge_item"
    /\ ret.key = "k1"
    /\ Len(knowledge_base) = 2
    /\ knowledge_base[1].key = "k1"
    /\ knowledge_base[2].key = "k1"
    /\ knowledge_base[1].added_at # knowledge_base[2].added_at
    /\ knowledge_base[1].verified
    /\ ~knowledge_base[2].verified

\* the contradiction a step's update_contradiction_status call changed
ContradictionUpdated(r, contras) ==
    IF r.op = "update_contradiction_status" THEN FirstWithId(contras, r.contra_id)
    ELSE 0

\* C29 as stated: update_contradiction_status on a recorded contradiction
\* overwrites its status and its resolution text with the values passed,
\* whatever the text, an empty or absent one included.
C29_AsStated ==
    [][LET i == ContradictionUpdated(ret', contradictions) IN
       i # 0 =>
         /\ contradictions'[i].status = ret'.status
         /\ contradictions'[i].resolution_attempt_description
               = ret'.text]_vars

\* C29: update_contradiction_status on a recorded contradiction overwrites
\* its status with the status passed, whatever the text; it overwrites the
\* resolution text only with a text that is not empty, and keeps the text
\* the contradiction had when the text passed is empty or absent.
C29_TextKeptUnlessGiven ==
    [][LET i == ContradictionUpdated(ret', contradictions) IN
       i # 0 =>
         /\ ret'.value = TRUE
         /\ contradictions'[i].status = ret'.status
         /\ contradictions'[i].resolution_attempt_description =
               IF ret'.text # None /\ ret'.text # Some("")
               THEN ret'.text
               ELSE contradictions[i].resolution_attempt_description]_vars

\* the last call passed an empty text and a new status to a contradiction
\* that had a resolution text: the status is the new one, the text the old
C29_Witness ==
    /\ ret.op = "update_contradiction_status"
    /\ ret.text = Some("")
    /\ ret.status = "resolving"
    /\ \E i \in DOMAIN contradictions :
          /\ contradictions[i].id = ret.contra_id
          /\ contradictions[i].status = "resolving"
          /\ contradictions[i].resolution_attempt_description
                = Some("merged")

----------------------------------------------------------------------------
(* Properties of the recency query's order *)

\* C28: the items get_knowledge_by_recency returns all carry a date that
\* parses, and they come newest first: of two items the one returned earlier
\* has the later date, or the same date and was added earlier.  What is
\* returned is what the function gives for the knowledge base, the window
\* and the clock of the state.
C28_NewestFirstStable ==
    (ret.op = "get_knowledge_by_recency" /\ ~ret.value.raised) =>
        LET items == ret.value.items IN
        /\ \A a \in DOMAIN items : HasNaiveDate(items[a])
        /\ \A a, b \in DOMAIN items :
              a < b =>
                 \/ PublishDay(items[a]) > PublishDay(items[b])
                 \/ /\ PublishDay(items[a]) = PublishDay(items[b])
                    /\ items[a] < items[b]
        /\ ret.value = get_knowledge_by_recency(knowledge_base, now, ret.days)

\* two items with one date returned in the order they were added
C28_Witness ==
    /\ ret.op = "get_knowledge_by_recency"
    /\ ~ret.value.raised
    /\ ret.value.items = <<1, 2>>
    /\ PublishDay(1) = PublishDay(2)

----------------------------------------------------------------------------
(* Properties of the tools that add knowledge items *)

\* C26: every knowledge item has a confidence in [0, 1] (0..10 in tenths),
\* whether extraction, hypothesis verification or synthesis added it.
C26_ConfidenceInRange ==
    \A i \in DOMAIN knowledge_base :
        /\ knowledge_base[i].confidence >= 0
        /\ knowledge_base[i].confidence <= 10

----------------------------------------------------------------------------
(* Properties of what the Generator is given *)

\* a cycle starts in this step: generate builds its prompt_input
GenerateCalled == pc = "idle" /\ pc' = "generate"

\* some commit so far installed a critique that is not empty
CommittedCritique ==
    \/ Truthy(current_criticism)
    \/ \E i \in DOMAIN history : Truthy(history[i].criticism)

\* C30 as stated: the Generator is given the critique of the latest commit,
\* and the placeholder when no commit so far installed a critique that is
\* not empty.
C30_AsStated ==
    [][GenerateCalled =>
         prompt_input'.criticism =
            IF CommittedCritique THEN current_criticism
            ELSE Some(NoPriorCriticism)]_vars

\* C30: the Generator of a cycle is given the critique that the latest
\* commit on the state installed, the Reviewer's sentinel included; it is
\* given the placeholder when there is no commit yet or when that critique
\* is the empty text.  What it was given does not change during the cycle.
C30_PriorCritique ==
    [][/\ GenerateCalled =>
            prompt_input'.criticism =
               IF current_criticism = None \/ current_criticism = Some("")
               THEN Some(NoPriorCriticism)
               ELSE current_criticism
       /\ pc # "idle" => prompt_input' = prompt_input]_vars

\* the Generator of a cycle has been given the sentinel that the cycle
\* before it committed
C30_Witness ==
    /\ pc = "generate"
    /\ prompt_input.criticism = Some(Sentinel)
    /\ current_criticism = Some(Sentinel)
    /\ Len(history) >= 1

----------------------------------------------------------------------------
(* Properties of the cycle under a request to stop *)

\* C27: once the caller has asked a running cycle to stop, the next step of
\* the cycle ends it, and nothing is committed to the generation ledger.
C27_CancelAborts ==
    [][(cancel_requested /\ pc # "idle") =>
          /\ pc' = "idle"
          /\ outcome' = "failed"
          /\ ledgerVars' = ledgerVars]_vars

----------------------------------------------------------------------------
(* Properties of the freshness report's input *)

\* the forms the tool's description names: 3 and 6 with the counter word
\* before the month character, 1 before the year character
DocumentedPeriods ==
    {TimePeriod(Some(3), TRUE, "month"), TimePeriod(Some(6), TRUE, "month"),
     TimePeriod(Some(1), FALSE, "year")}

\* the window the text stands for
WindowOf(time_period) ==
    IF time_period.unit = "none" \/ time_period.digits = None THEN 365
    ELSE time_period.digits[1] * UnitDays(time_period.unit)

\* C31: a run of analyze_knowledge_freshness on one of the documented
\* forms converts it to its window (30 days a month, 365 a year) without
\* raising, and then returns without raising.  (The recency query raises on
\* a window that reaches before datetime.min, whatever the text was; such
\* windows are left out of the second part.)
C31_DocumentedPeriods ==
    (/\ tool.name = "analyze_knowledge_freshness"
     /\ "time_period" \in DOMAIN tool
     /\ tool.time_period \in DocumentedPeriods) =>
        /\ tool.days = [ok |-> TRUE, days |-> WindowOf(tool.time_period)]
        /\ now - WindowOf(tool.time_period) >= MinDay => ~tool.raised

----------------------------------------------------------------------------
(* Properties of the tools on ids the state does not hold *)

\* the run recorded in t is verify_hypothesis or resolve_contradiction, on
\* well-formed input, with an id that no hypothesis / contradiction has
NotFoundRun(t) ==
    /\ t.name \in {"verify_hypothesis", "resolve_contradiction"}
    /\ t.input = "ok"
    /\ IF t.name = "verify_hypothesis"
       THEN FirstWithId(hypotheses, t.arg) = 0
       ELSE FirstWithId(contradictions, t.arg) = 0

\* C32: verify_hypothesis and resolve_contradiction given an id that no
\* hypothesis / contradiction has return the "not found" text: they do not
\* raise, call neither the search nor the model, and change no field of the
\* research state.
C32_NotFound ==
    [][NotFoundRun(tool') =>
         /\ ~tool'.raised
         /\ tool'.text = "not_found"
         /\ tool'.capability = "none"
         /\ tool'.name = "verify_hypothesis" => ~tool'.searched
         /\ StateFields' = StateFields]_vars

\* verify_hypothesis has answered "not found" for the id after the last
\* one, on a state that holds a hypothesis and a knowledge item
C32_Witness ==
    /\ tool.name = "verify_hypothesis"
    /\ tool.text = "not_found"
    /\ tool.arg = HypId(Len(hypotheses) + 1)
    /\ hypotheses # <<>>
    /\ knowledge_base # <<>>

----------------------------------------------------------------------------
(* Properties of the generation ledger *)

\* C33: the GENERATION ATTEMPTS figure of get_state_summary() is the number
\* of add_generation calls made on the state so far (each call appends one
\* history entry and nothing else does, so that number is Len(history)).
C33_AttemptsCountCommits ==
    ret.op = "get_state_summary" => ret.value.attempts = Len(history)

EmptyTriple == <<None, None, None>>

\* C34: every add_generation call appends exactly one entry to history and
\* leaves the entries before it as they were; the entry appended holds what
\* was current before the call, which is the triple the call before it
\* committed and the empty triple for the first call; the call's own triple
\* becomes the current one.  So after n calls history has n entries, the
\* first is the empty triple and entry i + 1 is the triple of call i.
C34_HistoryShifted ==
    [][/\ history' # history =>
            /\ ret'.op = "add_generation"
            /\ Len(history') = Len(history) + 1
            /\ SubSeq(history', 1, Len(history)) = history
            /\ EntryTriple(Last(history')) = CurrentTriple
            /\ CurrentTriple' = <<ret'.content, ret'.score, ret'.criticism>>
       /\ history = <<>> => CurrentTriple = EmptyTriple
       /\ history # <<>> => EntryTriple(history[1]) = EmptyTriple]_vars

\* three calls: the first entry is empty, the second and third hold the
\* triples of the first and second call, the third call's triple is current
C34_Witness ==
    /\ ret.op = "add_generation"
    /\ Len(history) = 3
    /\ EntryTriple(history[1]) = EmptyTriple
    /\ EntryTriple(history[2]) = <<Some("draft"), Some(7), Some("")>>
    /\ EntryTriple(history[3]) = <<Some(""), Some(7), Some("needs sources")>>
    /\ CurrentTriple = <<Some("draft"), Some(7), Some("needs sources")>>

----------------------------------------------------------------------------
(* Properties of the goals' back-references *)

\* the keys of the knowledge items that name the goal, in insertion order
KeysFor(goal_id) ==
    LET items == SelectSeq(knowledge_base,
                           LAMBDA k : k.goal_id = Some(goal_id)) IN
    [i \in 1..Len(items) |-> items[i].key]

\* the ids of the search iterations that name the goal, in insertion order
SearchesFor(goal_id) ==
    LET searches == SelectSeq(search_iterations,
                              LAMBDA x : x.goal_id = Some(goal_id)) IN
    [i \in 1..Len(searches) |-> searches[i].id]

IsSuffix(s, t) ==
    Len(s) <= Len(t) /\ s = SubSeq(t, Len(t) - Len(s) + 1, Len(t))

\* C35 as stated: every goal's related_knowledge is the sequence of keys of
\* the knowledge items that name it and its related_searches the sequence
\* of ids of the searches that name it.
C35_AsStated ==
    \A i \in DOMAIN decomposed_goals :
        LET g == decomposed_goals[i] IN
        /\ g.related_knowledge = KeysFor(g.id)
        /\ g.related_searches = SearchesFor(g.id)

\* what is filed under each goal is the tail of what names it
ReferencesFiled ==
    \A i \in DOMAIN decomposed_goals :
        LET g == decomposed_goals[i] IN
        /\ IsSuffix(g.related_knowledge, KeysFor(g.id))
        /\ IsSuffix(g.related_searches, SearchesFor(g.id))

\* C35: a knowledge item or search iteration added with the id of a goal
\* that exists is appended to that goal's list and to no other; one added
\* with an id that no goal has yet is filed nowhere, also not when the goal
\* is created later.  So each goal's related_knowledge (related_searches)
\* is, in insertion order, the keys (ids) of the items (searches) that name
\* the goal and were added after it: a tail of all those that name it.
C35_BackReferences ==
    [][/\ ReferencesFiled'
       /\ \A i \in DOMAIN decomposed_goals :
            LET g == decomposed_goals[i]
                h == decomposed_goals'[i] IN
            /\ h.related_knowledge =
                  IF /\ Len(knowledge_base') > Len(knowledge_base)
                     /\ Last(knowledge_base').goal_id = Some(g.id)
                  THEN Append(g.related_knowledge, Last(knowledge_base').key)
                  ELSE g.related_knowledge
            /\ h.related_searches =
                  IF /\ Len(search_iterations') > Len(search_iterations)
                     /\ Last(search_iterations').goal_id = Some(g.id)
                  THEN Append(g.related_searches, Last(search_iterations').id)
                  ELSE g.related_searches
       /\ \A i \in DOMAIN decomposed_goals' \ DOMAIN decomposed_goals :
            /\ decomposed_goals'[i].related_knowledge = <<>>
            /\ decomposed_goals'[i].related_searches = <<>>]_vars

\* two items name goal_1; the first was added before the goal and is not
\* filed, the second after it and is; a search is filed as well
C35_Witness ==
    /\ Len(knowledge_base) = 2
    /\ knowledge_base[1].goal_id = Some(GoalId(1))
    /\ knowledge_base[2].goal_id = Some(GoalId(1))
    /\ knowledge_base[1].key = "k1"
    /\ knowledge_base[2].key = "k2"
    /\ decomposed_goals # <<>>
    /\ decomposed_goals[1].related_knowledge = <<"k2">>
    /\ decomposed_goals[1].related_searches = <<SearchId(1)>>

----------------------------------------------------------------------------
(* Properties of the evidence keys *)

IsEvidence(item) == item.key[1] = "evidence"

\* C36: a key that verify_hypothesis generates for a search result differs
\* from every key already in the knowledge base: no item added as evidence
\* has the key of an item added before it.
C36_EvidenceKeysFresh ==
    \A i, j \in DOMAIN knowledge_base :
        (i < j /\ IsEvidence(knowledge_base[j])) =>
            knowledge_base[i].key # knowledge_base[j].key

----------------------------------------------------------------------------
(* Properties of the update_goal_status tool *)

\* C37: the update_goal_status tool reports that the status was updated
\* only when a goal has the goal_id it was given.
C37_SuccessOnlyIfUpdated ==
    [][(tool'.name = "update_goal_status" /\ tool'.text = "success") =>
          FirstGoal(decomposed_goals, tool'.arg) # 0]_vars

(***************************************************************************)
(* C38: for any interleaving of start_research requests, background        *)
(* execute_research_task jobs and delete_task requests, a task's status    *)
(* only moves initializing -> running -> completed or failed, a status of  *)
(* completed or failed never changes again, and a job never raises out of  *)
(* execute_research_task.                                                  *)
(***************************************************************************)
TerminalStatuses == {Some("completed"), Some("failed")}

\* the statuses an entry takes in one step, its status before included
StatusPath ==
    IF ret'.op = "start_research" /\ ret'.before # None
    THEN <<ret'.before[1], "initializing">>
    ELSE IF ret'.op = "execute_research_task" /\ ret'.before # None
    THEN <<ret'.before[1]>> \o ret'.writes
    ELSE <<>>

StatusMoves ==
    {<<"initializing", "running">>, <<"running", "completed">>,
     <<"running", "failed">>}

C38_StatusOnlyForward ==
    [][/\ \A k \in 1..(Len(StatusPath) - 1) :
              <<StatusPath[k], StatusPath[k + 1]>> \in StatusMoves
       /\ \A task_id \in TaskIds :
              (task_storage[task_id] \in TerminalStatuses
               /\ task_storage'[task_id] # None) =>
                  task_storage'[task_id] = task_storage[task_id]
       /\ ret'.op = "execute_research_task" => ~ret'.raised]_vars

====
